---- MODULE Spec2Model ----
(***************************************************************************)
(* Model of the honey-token audit trail (src/audit_logger.py) and of the   *)
(* /api/attacks limit handling (src/app.py).                               *)
(*                                                                         *)
(* The two persisted files (attacks.json, system_status.json) are state;   *)
(* every method of AuditLogger is a sequence of steps at the granularity   *)
(* of one file-system call sequence (open-read-close, open for writing,    *)
(* dump-and-close, unlink) or one access to the shared in-memory counter.  *)
(* The code takes no lock anywhere, so steps of different threads          *)
(* interleave freely.                                                      *)
(*                                                                         *)
(* Strings are sequences of character codes wherever the code formats,     *)
(* parses or compares them (attack ids, ISO-8601 timestamps).              *)
(***************************************************************************)
EXTENDS Integers, Sequences, FiniteSets, TLC

\* ------------------------------------------------------------------------
\* Bounds of the model
\* ------------------------------------------------------------------------

\* log_attack_event calls started
MaxEvents == 3

\* the clock runs from tick 0 to tick MaxClock
MaxClock == 2

\* Observer objects created before the last call that may create one starts
MaxObservers == 2

\* the same, where the restart budget is to be used up
MaxBudgetObservers == 6

\* the largest error count a status report is asked for with
MaxErrors == 4

\* the health-check intervals that the clock is followed through
MaxSleeps == 11

\* clock ticks per second (the code's clock has 1000000 microseconds per
\* second; the model scales the sub-second part down)
TicksPerSec == 2

\* ------------------------------------------------------------------------
\* Program constants
\* ------------------------------------------------------------------------

\* f'ATK_{self.attack_counter:03d}'
IdWidth == 3

\* app.py: limit = request.args.get('limit', 10, type=int)
DefaultLimit == 10

\* app.py: if limit < 1 or limit > 100
MinLimit == 1

MaxLimit == 100

Threads == {"t1", "t2"}

\* the thread of the single-threaded specifications
MainThread == "t1"

\* (event_type, file name) pairs the callers pass to log_attack_event
LogInputs == {<<"file_accessed", "a.txt">>, <<"file_modified", "b.txt">>}

\* ------------------------------------------------------------------------
\* Strings: attack ids
\* ------------------------------------------------------------------------

\* the characters 'A' 'T' 'K' '_'
AtkPrefix == <<65, 84, 75, 95>>

RECURSIVE Digits(_)
\* the decimal digits of n >= 0, most significant first
Digits(n) == IF n < 10 THEN <<n>> ELSE Digits(n \div 10) \o <<n % 10>>

RECURSIVE ZeroPad(_, _)
\* left-pads a digit sequence with zeros up to width w (never truncates)
ZeroPad(ds, w) == IF Len(ds) >= w THEN ds ELSE ZeroPad(<<0>> \o ds, w)

\* f'ATK_{n:03d}' as a sequence of character codes
FormatAttackId(n) ==
    AtkPrefix \o [i \in 1..Len(ZeroPad(Digits(n), IdWidth)) |->
                      48 + ZeroPad(Digits(n), IdWidth)[i]]

\* attack_id.startswith('ATK_')
StartsWithAtk(s) ==
    /\ Len(s) >= Len(AtkPrefix)
    /\ SubSeq(s, 1, Len(AtkPrefix)) = AtkPrefix

RECURSIVE UpToUnderscore(_)
\* the characters of s before its first '_' (all of s when it has none)
UpToUnderscore(s) ==
    IF s = <<>> \/ Head(s) = 95 THEN <<>>
    ELSE <<Head(s)>> \o UpToUnderscore(Tail(s))

\* attack_id.split('_')[1] for an id that starts with 'ATK_'
SplitField1(s) == UpToUnderscore(SubSeq(s, Len(AtkPrefix) + 1, Len(s)))

RECURSIVE DecimalValue(_, _)
DecimalValue(cs, acc) ==
    IF cs = <<>> THEN acc
    ELSE DecimalValue(Tail(cs), 10 * acc + (Head(cs) - 48))

\* a non-empty text of decimal digits
IsDecimal(cs) == cs # <<>> /\ \A i \in 1..Len(cs) : cs[i] \in 48..57

\* int(text) does not raise ValueError: an optional sign, then digits
\* (surrounding blanks and digit-group underscores are not modelled)
IsIntText(cs) ==
    /\ cs # <<>>
    /\ IF Head(cs) \in {43, 45} THEN IsDecimal(Tail(cs)) ELSE IsDecimal(cs)

\* int(text) for a text that IsIntText
IntValue(cs) ==
    IF Head(cs) = 45 THEN 0 - DecimalValue(Tail(cs), 0)
    ELSE IF Head(cs) = 43 THEN DecimalValue(Tail(cs), 0)
    ELSE DecimalValue(cs, 0)

\* the number _get_next_attack_counter reads out of one stored attack_id;
\* -1 when the id is skipped (no ATK_ prefix, or int() raises; a negative
\* number never raises max_id either)
ParseAttackId(s) ==
    IF StartsWithAtk(s) /\ IsIntText(SplitField1(s))
    THEN IntValue(SplitField1(s))
    ELSE -1

\* ------------------------------------------------------------------------
\* Strings: timestamps
\* ------------------------------------------------------------------------

\* datetime.isoformat() + 'Z' of clock tick c.  The first element stands for
\* the fixed-width 'YYYY-MM-DDTHH:MM:SS' part, compared as one block; then
\* isoformat() writes '.' and the six microsecond digits (one block) only
\* when the microsecond part is not zero; 'Z' (code 90) ends the string.
IsoFormat(c) ==
    IF c % TicksPerSec = 0
    THEN <<c \div TicksPerSec, 90>>
    ELSE <<c \div TicksPerSec, 46, c % TicksPerSec, 90>>

\* None for an optional timestamp
NoTime == <<>>

\* datetime.fromisoformat(ts.replace('Z', '+00:00')): the clock reading a
\* timestamp was formatted from
TickOf(ts) == ts[1] * TicksPerSec + (IF Len(ts) = 2 THEN 0 ELSE ts[3])

RECURSIVE StrLess(_, _)
\* a < b for Python strings: lexicographic on character codes
StrLess(a, b) ==
    IF b = <<>> THEN FALSE
    ELSE IF a = <<>> THEN TRUE
    ELSE IF Head(a) # Head(b) THEN Head(a) < Head(b)
    ELSE StrLess(Tail(a), Tail(b))

\* ------------------------------------------------------------------------
\* Records
\* ------------------------------------------------------------------------

\* AttackEvent (the fields the audit trail computes with)
MkEvent(id, ts, type, name, process) ==
    [attack_id |-> id, timestamp |-> ts, event_type |-> type, filename |-> name,
     process_name |-> process]

NoEvent == MkEvent(<<>>, NoTime, "", "", "")

\* SystemStatus as persisted
MkStatus(st, last, total, mon, start) ==
    [status |-> st, last_attack |-> last, total_attacks |-> total,
     monitoring_active |-> mon, start_time |-> start]

\* the status _initialize_system_status, _load_system_status (default
\* branches) and reset_system build
SafeStatus(start) == MkStatus("SAFE", NoTime, 0, FALSE, start)

\* A file is absent, ok (holds the JSON text of data) or bad (json.load
\* raises: opened for writing and truncated with the new text not yet
\* flushed, or two texts written over each other); size is its length.
AbsentFile == [st |-> "absent", data |-> <<>>, size |-> 0]

OkFile(d, len) == [st |-> "ok", data |-> d, size |-> len]

BadFile(len) == [st |-> "bad", data |-> <<>>, size |-> len]

\* open(path, 'w'): creates or truncates
OpenForWriting == BadFile(0)

\* json.dump and close through a descriptor opened with 'w', writing a text
\* of len characters from offset 0.  A text another thread flushed since
\* the open is overwritten in place: what is longer than len stays behind
\* it.  A descriptor whose path was unlinked since the open (live = FALSE)
\* writes to the orphaned file: the path is left as it is.
DumpAndClose(file, live, d, len) ==
    IF ~live THEN file
    ELSE IF len >= file.size THEN OkFile(d, len)
    ELSE BadFile(file.size)

\* characters of a timestamp: 'YYYY-MM-DDTHH:MM:SS' and 'Z', and '.ffffff'
\* when isoformat() writes the microseconds
TimeChars(ts) == IF ts = NoTime THEN 4 ELSE IF Len(ts) = 2 THEN 22 ELSE 29

RECURSIVE EventsChars(_)
\* length of the JSON text of a list of events (about 300 characters per
\* event besides its timestamp)
EventsChars(list) ==
    IF list = <<>> THEN 2
    ELSE 300 + TimeChars(Head(list).timestamp) + EventsChars(Tail(list))

\* length of the JSON text of a status record, up to its fixed part
StatusChars(s) ==
    (IF s.status = "SAFE" THEN 4 ELSE 12) + TimeChars(s.last_attack)
    + Len(Digits(s.total_attacks)) + (IF s.monitoring_active THEN 4 ELSE 5)
    + TimeChars(s.start_time)

VARIABLES
    attacksFile,        \* logs/attacks.json
    statusFile,         \* logs/system_status.json
    attack_counter,     \* self.attack_counter
    system_start_time,  \* self.system_start_time
    now,                \* the clock datetime.utcnow() reads
    pc,                 \* per thread: the step it is at
    loc,                \* per thread: the locals of the call in progress
    ret,                \* per thread: what its last call returned
    calls,              \* log_attack_event calls started (bounds the model)
    fresh               \* no call has started on the current instance yet

\* MonitorService (src/monitor_service.py)
VARIABLES
    is_monitoring,      \* self.is_monitoring
    observer,           \* self.observer: 0 for None, else an index of observers
    handler,            \* self.handler: 0 for None, else the number of the handler
    start_time,         \* self.start_time: -1 for None, else a clock reading
    restart_count,      \* self.restart_count
    restart_delay,      \* self.restart_delay, seconds
    last_error,         \* self.last_error
    error_count,        \* self.error_count
    shutdown_requested, \* self.shutdown_requested
    observers,          \* the Observer objects created so far: "new",
                        \* "alive", "stopping" (told to stop, its thread
                        \* still alive) or "dead"
    handlers,           \* the number of HoneyTokenHandler objects created
    mpc,                \* per thread: the step of MonitorService it is at
    mloc,               \* per thread: the MonitorService calls in progress
    mret                \* per thread: what its last MonitorService call returned

\* the HoneyTokenHandler that the running observer calls
VARIABLES
    event_count,        \* self.event_count
    notified,           \* notifications delivered for files of the watch set
    pending             \* the notification delivered last (note), what psutil
                        \* did in its _log_attack_event (outcome), the
                        \* arguments (input) of its log_attack_event call, and
                        \* the number (seq) of that call among all calls

handlerVars == <<event_count, notified, pending>>

monitorVars == <<is_monitoring, observer, handler, start_time, restart_count,
                 restart_delay, last_error, error_count, shutdown_requested,
                 observers, handlers, mpc, mloc, mret, handlerVars>>

auditVars == <<attacksFile, statusFile, attack_counter, system_start_time,
               pc, loc, ret, calls, fresh>>

vars == <<attacksFile, statusFile, attack_counter, system_start_time, now,
          pc, loc, ret, calls, fresh, monitorVars>>

\* ev, attacks, st, n, live: the locals of the call; before, had:
\* total_attacks and the event list as persisted when the call started
NoLocals == [ev |-> NoEvent, attacks |-> <<>>, st |-> SafeStatus(NoTime),
             n |-> 0, live |-> FALSE, before |-> 0, had |-> <<>>]

\* Python's None where a string is expected
None == "None"

\* the dictionary get_attack_statistics returns for an empty log; a dict is
\* the sequence of its <<key, value>> items in insertion order
EmptyStatistics ==
    [total_attacks |-> 0, event_types |-> <<>>, targeted_files |-> <<>>,
     recent_attacks_count |-> 0, most_targeted_file |-> None,
     most_common_event |-> None]

\* op: the call; ok: it returned (FALSE: it raised); ev, list, st, stats:
\* what it returned; result: the bool reset_system returned; uptime: the
\* uptime_seconds of the status returned;
\* query, arg: the limit it was given; before: total_attacks as persisted
\* when the call started
NoReturn == [op |-> "none", ok |-> TRUE, ev |-> NoEvent, list |-> <<>>,
             st |-> SafeStatus(NoTime), result |-> TRUE, uptime |-> 0,
             arg |-> 0,
             query |-> [present |-> FALSE, text |-> <<>>], before |-> 0,
             stats |-> EmptyStatistics]

\* ------------------------------------------------------------------------
\* AuditLogger: loading
\* ------------------------------------------------------------------------

\* _load_system_status: the persisted record, or the default status when the
\* file is absent or json.load raises
LoadSystemStatus ==
    IF statusFile.st = "ok" THEN statusFile.data
    ELSE SafeStatus(system_start_time)

RECURSIVE MaxIdOf(_, _)
\* the loop of _get_next_attack_counter over the loaded list
MaxIdOf(attacks, max_id) ==
    IF attacks = <<>> THEN max_id
    ELSE LET id_num == ParseAttackId(Head(attacks).attack_id)
         IN  MaxIdOf(Tail(attacks),
                     IF id_num >= 0 /\ id_num > max_id THEN id_num ELSE max_id)

\* _get_next_attack_counter that counts the stored events
GetNextAttackCounterByLength(file) ==
    IF file.st = "ok" THEN Len(file.data) + 1 ELSE 1

\* _get_next_attack_counter
GetNextAttackCounter(file) ==
    IF file.st = "ok" /\ file.data # <<>>
    THEN MaxIdOf(file.data, 0) + 1
    ELSE 1

\* ------------------------------------------------------------------------
\* MonitorService: data
\* ------------------------------------------------------------------------

\* self.max_restarts
max_restarts == 5

\* self.restart_delay as constructed, and its cap in restart_monitoring
InitialRestartDelay == 1

MaxRestartDelay == 60

\* seconds of running after which the worker resets the restart budget
StableSeconds == 300

\* the thread of _auto_restart_worker, and all threads that call the service
Worker == "w"

MonitorThreads == Threads \cup {Worker}

\* self.start_time = None
NoStartTime == -1

\* what a start_monitoring call finds outside the service: the tokens
\* ("present", "recreated" by create_honey_tokens, still "missing", or
\* verify_tokens raising: "error"), the path list ("some", "none",
\* "error"), and the watch directory ("ok", "absent", "unreadable", "error")
Environments ==
    [tokens : {"present", "recreated", "missing", "error"},
     paths : {"some", "none", "error"},
     dir : {"ok", "absent", "unreadable", "error"}]

NoEnvironment == [tokens |-> "", paths |-> "", dir |-> ""]

\* the message start_monitoring stores in last_error for what it finds, None
\* when it finds nothing wrong (the checks are made in this order)
PreflightError(env) ==
    IF env.tokens = "missing" THEN "Failed to recreate honey-tokens"
    ELSE IF env.tokens = "error" THEN "Failed to verify honey-tokens"
    ELSE IF env.paths = "none" THEN "No honey-token paths found"
    ELSE IF env.paths = "error" THEN "Failed to get honey-token paths"
    ELSE IF env.dir = "absent" THEN "Watch directory does not exist"
    ELSE IF env.dir = "unreadable" THEN "Watch directory is not readable"
    ELSE IF env.dir = "error" THEN "Failed to verify watch directory"
    ELSE None

\* restart: the thread is inside restart_monitoring; env: what its
\* start_monitoring call found; alive: the observer thread was alive when
\* the call looked
NoCall == [restart |-> FALSE, env |-> NoEnvironment, alive |-> FALSE]

\* op: the call; result: the value returned; noop: it returned at its first
\* check; env: what a start found; alive: the observer was alive when the
\* start checked it; health: the health_status that get_status reported
NoResult == [op |-> "none", result |-> FALSE, noop |-> FALSE,
             env |-> NoEnvironment, alive |-> FALSE, health |-> ""]

\* no notification was delivered yet
NoNotification == [kind |-> "", is_directory |-> FALSE, src_path |-> ""]

\* HoneyTokenHandler.__init__
HandlerInit ==
    /\ event_count = 0
    /\ notified = 0
    /\ pending = [note |-> NoNotification, outcome |-> "none", input |-> <<>>,
                  seq |-> -1, rest |-> <<>>, emitted |-> <<>>]

\* self.health_check_interval, in seconds
health_check_interval == 30

\* if self.error_count > 3, in _get_health_status
ErrorThreshold == 3

\* MonitorService.__init__; no auto-restart thread exists
MonitorInit ==
    /\ is_monitoring = FALSE
    /\ observer = 0
    /\ handler = 0
    /\ start_time = NoStartTime
    /\ restart_count = 0
    /\ restart_delay = InitialRestartDelay
    /\ last_error = None
    /\ error_count = 0
    /\ shutdown_requested = FALSE
    /\ observers = <<>>
    /\ handlers = 0
    /\ mpc = [t \in MonitorThreads |-> IF t = Worker THEN "w_none" ELSE "idle"]
    /\ mloc = [t \in MonitorThreads |-> NoCall]
    /\ mret = [t \in MonitorThreads |-> NoResult]
    /\ HandlerInit

\* AuditLogger.__init__ on an empty data directory
\* AuditLogger(logs_directory) on a directory whose attacks.json is file and
\* whose system_status.json is record (written when it does not exist)
AuditInitOn(file, record) ==
    /\ attacksFile = file
    /\ now = 0
    /\ system_start_time = IsoFormat(0)
    /\ statusFile = (IF record.st = "absent"
                     THEN OkFile(SafeStatus(IsoFormat(0)),
                                 StatusChars(SafeStatus(IsoFormat(0))))
                     ELSE record)
    /\ attack_counter = GetNextAttackCounter(file)
    /\ pc = [t \in Threads |-> "idle"]
    /\ loc = [t \in Threads |-> NoLocals]
    /\ ret = [t \in Threads |-> NoReturn]
    /\ calls = 0
    /\ fresh = TRUE

AuditInit == AuditInitOn(AbsentFile, AbsentFile)

Init == AuditInit /\ MonitorInit

\* ------------------------------------------------------------------------
\* Steps
\* ------------------------------------------------------------------------

AllIdle == \A t \in Threads : pc[t] = "idle"

\* time passes (the clock never runs backwards); datetime.utcnow() reads now
Tick ==
    /\ now < MaxClock
    /\ now' = now + 1
    /\ UNCHANGED <<attacksFile, statusFile, attack_counter, system_start_time,
                   pc, loc, ret, calls, fresh>>
    /\ UNCHANGED monitorVars

\* thread t goes to step p with its locals changed to l
Goto(t, p, l) ==
    /\ pc' = [pc EXCEPT ![t] = p]
    /\ loc' = [loc EXCEPT ![t] = l]

\* the call of thread t returns r
Return(t, r) ==
    /\ pc' = [pc EXCEPT ![t] = "idle"]
    /\ loc' = [loc EXCEPT ![t] = NoLocals]
    /\ ret' = [ret EXCEPT ![t] = r]

\* ---- log_attack_event ---------------------------------------------------

\* what psutil does when asked about the current process: it answers, or
\* it raises one of the three errors the handler names, or another error
\* (psutil.Error, OSError, KeyError from username(), ...)
Introspections ==
    {"ok", "NoSuchProcess", "AccessDenied", "ZombieProcess", "OtherError"}

\* process_name of AuditLogger._get_current_process_info(): every exception
\* is caught
GetCurrentProcessInfo(outcome) ==
    IF outcome = "ok" THEN "python" ELSE "Unknown"

\* an input is <<event_type, file name>> (process_info is None and psutil
\* answers) or <<event_type, file name, <<"None", outcome>>>> (process_info
\* is None) or <<event_type, file name, <<"given", process_name>>>>
\* the event log_attack_event builds: timestamp from the clock, attack_id
\* from the in-memory counter
NewAttackEvent(in) ==
    MkEvent(FormatAttackId(attack_counter), IsoFormat(now), in[1], in[2],
            IF Len(in) = 2 THEN GetCurrentProcessInfo("ok")
            ELSE IF in[3][1] = "None" THEN GetCurrentProcessInfo(in[3][2])
            ELSE in[3][2])

\* log_attack_event(event_type, file_path) with its arguments drawn from
\* inputs, up to the call of _save_attack_event
LogBegin(t, inputs) ==
    /\ pc[t] = "idle"
    /\ calls < MaxEvents
    /\ \E in \in inputs :
         Goto(t, "log_load",
              [NoLocals EXCEPT !.ev = NewAttackEvent(in),
                               !.before = LoadSystemStatus.total_attacks,
                               !.had = IF attacksFile.st = "ok"
                                       THEN attacksFile.data ELSE <<>>])
    /\ calls' = calls + 1
    /\ fresh' = FALSE
    /\ UNCHANGED <<attacksFile, statusFile, attack_counter, system_start_time,
                   now, ret>>
    /\ UNCHANGED monitorVars

\* _save_attack_event: the existing attacks are loaded (none when the file
\* is absent); when json.load cannot parse the file it raises, and
\* log_attack_event re-raises to its caller
LogLoad(t) ==
    /\ pc[t] = "log_load"
    /\ IF attacksFile.st = "bad"
       THEN Return(t, [NoReturn EXCEPT !.op = "log", !.ok = FALSE,
                                       !.before = loc[t].before])
       ELSE /\ Goto(t, "log_open", [loc[t] EXCEPT !.attacks = attacksFile.data])
            /\ UNCHANGED ret
    /\ UNCHANGED <<attacksFile, statusFile, attack_counter, system_start_time,
                   now, calls, fresh>>
    /\ UNCHANGED monitorVars

\* _save_attack_event that puts the new event first
PrependedAttacks(t) == <<loc[t].ev>> \o loc[t].attacks

\* _save_attack_event that writes the new event alone
NewAttackOnly(t) == <<loc[t].ev>>

\* attacks.append(...) and the list _save_attack_event writes
AppendedAttacks(t) == Append(loc[t].attacks, loc[t].ev)

\* _save_attack_event: open(attacks_log_file, 'w')
LogOpen(t) ==
    /\ pc[t] = "log_open"
    /\ attacksFile' = OpenForWriting
    /\ Goto(t, "log_dump", [loc[t] EXCEPT !.live = TRUE])
    /\ UNCHANGED <<statusFile, attack_counter, system_start_time, now, ret,
                   calls, fresh>>
    /\ UNCHANGED monitorVars

\* _save_attack_event: json.dump(attacks, f) and close
LogDump(t) ==
    /\ pc[t] = "log_dump"
    /\ attacksFile' = DumpAndClose(attacksFile, loc[t].live, AppendedAttacks(t),
                                   EventsChars(AppendedAttacks(t)))
    /\ Goto(t, "log_status_load", loc[t])
    /\ UNCHANGED <<statusFile, attack_counter, system_start_time, now, ret,
                   calls, fresh>>
    /\ UNCHANGED monitorVars

\* update_system_status that sets the status without counting the attack
UpdatedStatusUncounted(cur, status, last_attack_time) ==
    [cur EXCEPT !.status = status, !.last_attack = last_attack_time]

\* update_system_status(status, last_attack_time) applied to the loaded record
UpdatedStatus(cur, status, last_attack_time) ==
    IF last_attack_time # NoTime
    THEN [cur EXCEPT !.status = status,
                     !.last_attack = last_attack_time,
                     !.total_attacks = cur.total_attacks + 1]
    ELSE [cur EXCEPT !.status = status]

\* update_system_status: _load_system_status and the field updates
LogStatusLoad(t) ==
    /\ pc[t] = "log_status_load"
    /\ Goto(t, "log_status_open",
            [loc[t] EXCEPT !.st = UpdatedStatus(LoadSystemStatus, "UNDER_ATTACK",
                                                loc[t].ev.timestamp)])
    /\ UNCHANGED <<attacksFile, statusFile, attack_counter, system_start_time,
                   now, ret, calls, fresh>>
    /\ UNCHANGED monitorVars

\* _save_system_status: open(status_file, 'w')
StatusOpen(t, from, to) ==
    /\ pc[t] = from
    /\ statusFile' = OpenForWriting
    /\ Goto(t, to, loc[t])

\* _save_system_status: json.dump(status.to_dict(), f) and close
StatusDump(t) ==
    statusFile' = DumpAndClose(statusFile, TRUE, loc[t].st, StatusChars(loc[t].st))

LogStatusOpen(t) ==
    /\ StatusOpen(t, "log_status_open", "log_status_dump")
    /\ UNCHANGED <<attacksFile, attack_counter, system_start_time, now, ret,
                   calls, fresh>>
    /\ UNCHANGED monitorVars

LogStatusDump(t) ==
    /\ pc[t] = "log_status_dump"
    /\ StatusDump(t)
    /\ Goto(t, "log_counter_read", loc[t])
    /\ UNCHANGED <<attacksFile, attack_counter, system_start_time, now, ret,
                   calls, fresh>>
    /\ UNCHANGED monitorVars

\* self.attack_counter += 1: the read
LogCounterRead(t) ==
    /\ pc[t] = "log_counter_read"
    /\ Goto(t, "log_counter_write", [loc[t] EXCEPT !.n = attack_counter])
    /\ UNCHANGED <<attacksFile, statusFile, attack_counter, system_start_time,
                   now, ret, calls, fresh>>
    /\ UNCHANGED monitorVars

\* the value self.attack_counter += 1 stores
IncrementedCounter(n) == n + 1

\* self.attack_counter += 1: the write; return attack_event
LogCounterWrite(t) ==
    /\ pc[t] = "log_counter_write"
    /\ attack_counter' = IncrementedCounter(loc[t].n)
    /\ Return(t, [NoReturn EXCEPT !.op = "log", !.ev = loc[t].ev,
                                  !.before = loc[t].before])
    /\ UNCHANGED <<attacksFile, statusFile, system_start_time, now, calls, fresh>>
    /\ UNCHANGED monitorVars

\* _save_attack_event: open(attacks_log_file, 'w') raises (the file cannot
\* be written); log_attack_event re-raises
LogOpenFails(t) ==
    /\ pc[t] = "log_open"
    /\ Return(t, [NoReturn EXCEPT !.op = "log", !.ok = FALSE,
                                  !.before = loc[t].before])
    /\ UNCHANGED <<attacksFile, statusFile, attack_counter, system_start_time,
                   now, calls, fresh>>
    /\ UNCHANGED monitorVars

\* _save_attack_event: json.dump or the close raises after the open has
\* truncated the file (the disk is full); log_attack_event re-raises
LogDumpFails(t) ==
    /\ pc[t] = "log_dump"
    /\ Return(t, [NoReturn EXCEPT !.op = "log", !.ok = FALSE,
                                  !.before = loc[t].before])
    /\ UNCHANGED <<attacksFile, statusFile, attack_counter, system_start_time,
                   now, calls, fresh>>
    /\ UNCHANGED monitorVars

LogStep(t, inputs) ==
    \/ LogBegin(t, inputs)
    \/ LogLoad(t)
    \/ LogOpen(t)
    \/ LogDump(t)
    \/ LogStatusLoad(t)
    \/ LogStatusOpen(t)
    \/ LogStatusDump(t)
    \/ LogCounterRead(t)
    \/ LogCounterWrite(t)

\* ---- reset_system -------------------------------------------------------

\* reset_system: attacks_log_file.unlink() when the file exists.  Every
\* descriptor open on the file now refers to an orphan.
ResetUnlink(t) ==
    /\ pc[t] = "idle"
    /\ attacksFile' = AbsentFile
    /\ pc' = [pc EXCEPT ![t] = "reset_open"]
    /\ loc' = [u \in Threads |->
                 IF u = t THEN NoLocals
                 ELSE IF attacksFile.st # "absent"
                      THEN [loc[u] EXCEPT !.live = FALSE]
                      ELSE loc[u]]
    /\ fresh' = FALSE
    /\ UNCHANGED <<statusFile, attack_counter, system_start_time, now, ret, calls>>
    /\ UNCHANGED monitorVars

\* reset_system: builds reset_status (reads the clock) and opens the status
\* file for writing
ResetStatusOpen(t) ==
    /\ pc[t] = "reset_open"
    /\ statusFile' = OpenForWriting
    /\ Goto(t, "reset_dump", [loc[t] EXCEPT !.st = SafeStatus(IsoFormat(now))])
    /\ UNCHANGED <<attacksFile, attack_counter, system_start_time, now, ret,
                   calls, fresh>>
    /\ UNCHANGED monitorVars

ResetStatusDump(t) ==
    /\ pc[t] = "reset_dump"
    /\ StatusDump(t)
    /\ Goto(t, "reset_counter", loc[t])
    /\ UNCHANGED <<attacksFile, attack_counter, system_start_time, now, ret,
                   calls, fresh>>
    /\ UNCHANGED monitorVars

\* reset_system that leaves self.attack_counter as it is
ResetCounterKept == attack_counter

\* the value reset_system stores in self.attack_counter
ResetCounterValue == 1

\* reset_system: self.attack_counter = 1, self.system_start_time = utcnow(),
\* return True
ResetCounter(t) ==
    /\ pc[t] = "reset_counter"
    /\ attack_counter' = ResetCounterValue
    /\ system_start_time' = IsoFormat(now)
    /\ Return(t, [NoReturn EXCEPT !.op = "reset"])
    /\ UNCHANGED <<attacksFile, statusFile, now, calls, fresh>>
    /\ UNCHANGED monitorVars

\* reset_system: attacks_log_file.unlink() raises; return False
ResetUnlinkFails(t) ==
    /\ pc[t] = "idle"
    /\ attacksFile.st # "absent"
    /\ ret' = [ret EXCEPT ![t] = [NoReturn EXCEPT !.op = "reset",
                                                  !.result = FALSE]]
    /\ fresh' = FALSE
    /\ UNCHANGED <<attacksFile, statusFile, attack_counter, system_start_time,
                   now, pc, loc, calls>>
    /\ UNCHANGED monitorVars

\* reset_system: the open in _save_system_status raises; the exception is
\* printed there and reset_system goes on
ResetStatusOpenFails(t) ==
    /\ pc[t] = "reset_open"
    /\ Goto(t, "reset_counter", [loc[t] EXCEPT !.st = SafeStatus(IsoFormat(now))])
    /\ UNCHANGED <<attacksFile, statusFile, attack_counter, system_start_time,
                   now, ret, calls, fresh>>
    /\ UNCHANGED monitorVars

\* reset_system: json.dump or the close in _save_system_status raises after
\* the open has truncated the file; the exception is printed there and
\* reset_system goes on
ResetStatusDumpFails(t) ==
    /\ pc[t] = "reset_dump"
    /\ Goto(t, "reset_counter", loc[t])
    /\ UNCHANGED <<attacksFile, statusFile, attack_counter, system_start_time,
                   now, ret, calls, fresh>>
    /\ UNCHANGED monitorVars

ResetStep(t) ==
    \/ ResetUnlink(t)
    \/ ResetStatusOpen(t)
    \/ ResetStatusDump(t)
    \/ ResetCounter(t)

\* ---- set_monitoring_status ----------------------------------------------

\* set_monitoring_status(active): _load_system_status and the field update
SetMonitoringLoad(t) ==
    /\ pc[t] = "idle"
    /\ \E active \in BOOLEAN :
         Goto(t, "mon_open",
              [NoLocals EXCEPT !.st = [LoadSystemStatus EXCEPT
                                         !.monitoring_active = active]])
    /\ fresh' = FALSE
    /\ UNCHANGED <<attacksFile, statusFile, attack_counter, system_start_time,
                   now, ret, calls>>
    /\ UNCHANGED monitorVars

SetMonitoringOpen(t) ==
    /\ StatusOpen(t, "mon_open", "mon_dump")
    /\ UNCHANGED <<attacksFile, attack_counter, system_start_time, now, ret,
                   calls, fresh>>
    /\ UNCHANGED monitorVars

SetMonitoringDump(t) ==
    /\ pc[t] = "mon_dump"
    /\ StatusDump(t)
    /\ Return(t, [NoReturn EXCEPT !.op = "set_monitoring",
                                  !.st = loc[t].st])
    /\ UNCHANGED <<attacksFile, attack_counter, system_start_time, now, calls, fresh>>
    /\ UNCHANGED monitorVars

SetMonitoringStep(t) ==
    \/ SetMonitoringLoad(t)
    \/ SetMonitoringOpen(t)
    \/ SetMonitoringDump(t)

\* ---- reads --------------------------------------------------------------

\* get_all_attacks: the stored list; [] when the file is absent or
\* json.load raises
AllAttacks(file) == IF file.st = "ok" THEN file.data ELSE <<>>

RECURSIVE InsertRecent(_, _)
\* e put behind every element whose timestamp string is not smaller
InsertRecent(sorted, e) ==
    IF sorted = <<>> THEN <<e>>
    ELSE IF StrLess(Head(sorted).timestamp, e.timestamp) THEN <<e>> \o sorted
    ELSE <<Head(sorted)>> \o InsertRecent(Tail(sorted), e)

RECURSIVE SortRecent(_, _)
\* attacks.sort(key=lambda x: x.timestamp, reverse=True): a stable sort on
\* the timestamp strings, equal keys staying in their original order
SortRecent(list, sorted) ==
    IF list = <<>> THEN sorted
    ELSE SortRecent(Tail(list), InsertRecent(sorted, Head(list)))

\* list[:k]
SliceTo(list, k) ==
    IF k >= 0
    THEN SubSeq(list, 1, IF k < Len(list) THEN k ELSE Len(list))
    ELSE SubSeq(list, 1, IF Len(list) + k > 0 THEN Len(list) + k ELSE 0)

\* get_recent_attacks(limit)
RecentAttacks(file, limit) == SliceTo(SortRecent(AllAttacks(file), <<>>), limit)

\* the limits callers pass to AuditLogger.get_recent_attacks directly
LimitInputs == {-1, 0, 1, 2, 3, DefaultLimit, MaxLimit, MaxLimit + 1}

\* the text of a number, as a client writes it in a query string
NumberText(n) ==
    IF n < 0 THEN <<45>> \o [i \in 1..Len(Digits(0 - n)) |-> 48 + Digits(0 - n)[i]]
    ELSE [i \in 1..Len(Digits(n)) |-> 48 + Digits(n)[i]]

\* the ?limit= query parameters of /api/attacks: missing, or a text
\* (numbers, the empty text, 'abc', '2.5')
QueryLimits ==
    {[present |-> FALSE, text |-> <<>>]}
    \cup {[present |-> TRUE, text |-> NumberText(n)] : n \in LimitInputs}
    \cup {[present |-> TRUE, text |-> x] :
            x \in {<<>>, <<97, 98, 99>>, <<50, 46, 53>>}}

\* request.args.get('limit', default, type=int): the default when the
\* parameter is missing or int() raises ValueError
ArgsGetInt(q, default) ==
    IF q.present /\ IsIntText(q.text) THEN IntValue(q.text) ELSE default

\* app.get_recent_attacks without the upper bound
ApiLimitNoUpperBound(q) ==
    IF ArgsGetInt(q, DefaultLimit) < MinLimit
    THEN DefaultLimit
    ELSE ArgsGetInt(q, DefaultLimit)

\* app.get_recent_attacks: the limit it passes to the audit logger
ApiLimit(q) ==
    IF ArgsGetInt(q, DefaultLimit) < MinLimit \/ ArgsGetInt(q, DefaultLimit) > MaxLimit
    THEN DefaultLimit
    ELSE ArgsGetInt(q, DefaultLimit)

\* a read that lets the exception of json.load reach its caller
ReadOrRaise(t, r) ==
    /\ pc[t] = "idle"
    /\ ret' = [ret EXCEPT ![t] =
                 [r EXCEPT !.ok = (attacksFile.st # "bad"),
                           !.before = LoadSystemStatus.total_attacks]]
    /\ fresh' = FALSE
    /\ UNCHANGED <<attacksFile, statusFile, attack_counter, system_start_time,
                   now, pc, loc, calls>>
    /\ UNCHANGED monitorVars

\* a call that reads and returns r in one step
ReadReturn(t, r) ==
    /\ pc[t] = "idle"
    /\ ret' = [ret EXCEPT ![t] =
                 [r EXCEPT !.before = LoadSystemStatus.total_attacks]]
    /\ fresh' = FALSE
    /\ UNCHANGED <<attacksFile, statusFile, attack_counter, system_start_time,
                   now, pc, loc, calls>>
    /\ UNCHANGED monitorVars

\* get_system_status that leaves the uptime_seconds of a default status
UptimeOfLoaded(st) ==
    IF statusFile.st # "ok" \/ st.start_time = NoTime THEN 0
    ELSE (now - TickOf(st.start_time)) \div TicksPerSec

\* status.uptime_seconds = int((datetime.utcnow() - start_time)
\* .total_seconds()) when status.start_time is set, whatever
\* _load_system_status returned (a status it builds has uptime_seconds 0)
UptimeSeconds(st) ==
    IF st.start_time = NoTime THEN 0
    ELSE (now - TickOf(st.start_time)) \div TicksPerSec

\* get_system_status
GetSystemStatus(t) ==
    ReadReturn(t, [NoReturn EXCEPT !.op = "get_status", !.st = LoadSystemStatus,
                                   !.uptime = UptimeSeconds(LoadSystemStatus)])

\* get_all_attacks
GetAllAttacks(t) ==
    ReadReturn(t, [NoReturn EXCEPT !.op = "get_all",
                                   !.list = AllAttacks(attacksFile)])

\* get_recent_attacks(limit), called directly
GetRecentAttacks(t) ==
    \E limit \in LimitInputs :
        ReadReturn(t, [NoReturn EXCEPT !.op = "get_recent", !.arg = limit,
                                       !.list = RecentAttacks(attacksFile, limit)])

\* GET /api/attacks?limit=...
ApiGetRecentAttacks(t) ==
    \E q \in QueryLimits :
        ReadReturn(t, [NoReturn EXCEPT !.op = "api_attacks", !.query = q,
                                       !.arg = ApiLimit(q),
                                       !.list = RecentAttacks(attacksFile, ApiLimit(q))])

\* ---- statistics ---------------------------------------------------------

\* d.get(k, 0)
DictGet(d, k) ==
    IF \E i \in 1..Len(d) : d[i][1] = k
    THEN d[CHOOSE i \in 1..Len(d) : d[i][1] = k][2]
    ELSE 0

\* d[k] = v: an existing key keeps its place, a new key goes last
DictSet(d, k, v) ==
    IF \E i \in 1..Len(d) : d[i][1] = k
    THEN [i \in 1..Len(d) |-> IF d[i][1] = k THEN <<k, v>> ELSE d[i]]
    ELSE Append(d, <<k, v>>)

RECURSIVE CountEventTypes(_, _)
\* the loop of get_attack_statistics, for event_types
CountEventTypes(attacks, d) ==
    IF attacks = <<>> THEN d
    ELSE CountEventTypes(Tail(attacks),
                         DictSet(d, Head(attacks).event_type,
                                 DictGet(d, Head(attacks).event_type) + 1))

RECURSIVE CountTargetedFiles(_, _)
\* the loop of get_attack_statistics, for targeted_files
CountTargetedFiles(attacks, d) ==
    IF attacks = <<>> THEN d
    ELSE CountTargetedFiles(Tail(attacks),
                            DictSet(d, Head(attacks).filename,
                                    DictGet(d, Head(attacks).filename) + 1))

\* max(...) that lets a later item of equal count win
LaterMaxWins(best, item) == item[2] >= best[2]

\* max(...) replaces the item it holds only by one of greater count
GreaterCount(best, item) == item[2] > best[2]

RECURSIVE MaxItem(_, _)
\* max(d.items(), key=lambda x: x[1]) continued from the item best
MaxItem(items, best) ==
    IF items = <<>> THEN best
    ELSE MaxItem(Tail(items),
                 IF GreaterCount(best, Head(items)) THEN Head(items) ELSE best)

\* max(d.items(), key=lambda x: x[1])[0] if d else None
MostFrequent(d) == IF d = <<>> THEN None ELSE MaxItem(Tail(d), Head(d))[1]

\* [a for a in attacks if a.timestamp]
RECURSIVE WithTimestamp(_)
WithTimestamp(attacks) ==
    IF attacks = <<>> THEN <<>>
    ELSE (IF Head(attacks).timestamp # NoTime THEN <<Head(attacks)>> ELSE <<>>)
         \o WithTimestamp(Tail(attacks))

\* get_attack_statistics over the list get_all_attacks returns
AttackStatistics(attacks) ==
    IF attacks = <<>> THEN EmptyStatistics
    ELSE [total_attacks |-> Len(attacks),
          event_types |-> CountEventTypes(attacks, <<>>),
          targeted_files |-> CountTargetedFiles(attacks, <<>>),
          recent_attacks_count |-> Len(WithTimestamp(attacks)),
          most_targeted_file |-> MostFrequent(CountTargetedFiles(attacks, <<>>)),
          most_common_event |-> MostFrequent(CountEventTypes(attacks, <<>>))]

\* get_attack_statistics
GetAttackStatistics(t) ==
    ReadReturn(t, [NoReturn EXCEPT !.op = "get_statistics",
                                   !.stats = AttackStatistics(AllAttacks(attacksFile))])

\* ---- construction -------------------------------------------------------

\* AuditLogger(logs_directory) over the store as it is: the status file is
\* written only when it does not exist; the counter is seeded from the log
Construct ==
    /\ system_start_time' = IsoFormat(now)
    /\ statusFile' =
         IF statusFile.st = "absent"
         THEN OkFile(SafeStatus(IsoFormat(now)), StatusChars(SafeStatus(IsoFormat(now))))
         ELSE statusFile
    /\ attack_counter' = GetNextAttackCounter(attacksFile)
    /\ pc' = [t \in Threads |-> "idle"]
    /\ loc' = [t \in Threads |-> NoLocals]
    /\ fresh' = TRUE
    /\ UNCHANGED <<attacksFile, now, ret, calls>>
    /\ UNCHANGED monitorVars

\* a new AuditLogger instance while no call is in progress
NewInstance == AllIdle /\ ~fresh /\ Construct

\* the process is killed with calls in progress and started again
CrashRestart == ~AllIdle /\ Construct

\* ------------------------------------------------------------------------
\* MonitorService: steps
\* ------------------------------------------------------------------------

\* no thread is inside a MonitorService call (the worker, if it runs, is
\* between two steps of its loop)
MonitorIdle == \A t \in Threads : mpc[t] = "idle"

\* thread t goes to step p of the service with its call record l
MGoto(t, p, l) ==
    /\ mpc' = [mpc EXCEPT ![t] = p]
    /\ mloc' = [mloc EXCEPT ![t] = l]

\* the outermost MonitorService call of thread t returns r
MReturn(t, r) ==
    /\ mpc' = [mpc EXCEPT ![t] = "idle"]
    /\ mloc' = [mloc EXCEPT ![t] = NoCall]
    /\ mret' = [mret EXCEPT ![t] = r]

\* self.audit_logger.set_monitoring_status(active), run with no other thread
\* at the status file: load, set the flag, save
SetMonitoringStatus(active) ==
    /\ statusFile' =
         OkFile([LoadSystemStatus EXCEPT !.monitoring_active = active],
                StatusChars([LoadSystemStatus EXCEPT !.monitoring_active = active]))
    /\ fresh' = FALSE
    /\ UNCHANGED <<attacksFile, attack_counter, system_start_time, pc, loc,
                   ret, calls>>

\* self.observer.is_alive(), where self.observer is not None
ObserverIsAlive == observers[observer] \in {"alive", "stopping"}

\* self.is_running()
IsRunning ==
    /\ is_monitoring
    /\ observer # 0
    /\ ObserverIsAlive

\* the watch thread of an observer ends by itself
ObserverDies ==
    /\ \E o \in 1..Len(observers) :
         /\ observers[o] \in {"alive", "stopping"}
         /\ observers' = [observers EXCEPT ![o] = "dead"]
    /\ UNCHANGED <<is_monitoring, observer, handler, start_time, restart_count,
                   restart_delay, last_error, error_count, shutdown_requested,
                   handlers, mpc, mloc, mret>>
    /\ UNCHANGED <<auditVars, now>>
    /\ UNCHANGED handlerVars

\* ---- get_status --------------------------------------------------------

\* a health status that looks at the error count before the last error
HealthCountBeforeError(err) ==
    IF ~is_monitoring THEN "stopped"
    ELSE IF error_count > ErrorThreshold THEN "unhealthy"
    ELSE IF err # None THEN "degraded"
    ELSE IF ~IsRunning THEN "unhealthy"
    ELSE "healthy"

\* self._get_health_status(), where self.last_error is err
GetHealthStatus(err) ==
    IF ~is_monitoring THEN "stopped"
    ELSE IF err # None THEN "degraded"
    ELSE IF error_count > ErrorThreshold THEN "unhealthy"
    ELSE IF ~IsRunning THEN "unhealthy"
    ELSE "healthy"

\* get_status(): get_token_paths() returns or raises (then last_error is
\* set, if it was not); the report holds self._get_health_status()
GetStatus(t) ==
    /\ mpc[t] = "idle"
    /\ pc[t] = "idle"
    /\ \E paths \in BOOLEAN :
         /\ last_error' = IF ~paths /\ last_error = None
                          THEN "Error getting token paths"
                          ELSE last_error
         /\ mret' = [mret EXCEPT ![t] =
                       [NoResult EXCEPT !.op = "get_status", !.result = TRUE,
                                        !.health = GetHealthStatus(last_error')]]
    /\ UNCHANGED <<is_monitoring, observer, handler, start_time, restart_count,
                   restart_delay, error_count, shutdown_requested, observers,
                   handlers, mpc, mloc>>
    /\ UNCHANGED <<auditVars, now>>
    /\ UNCHANGED handlerVars

\* ---- start_monitoring --------------------------------------------------

\* start_monitoring returns: to restart_monitoring when called from it,
\* else to the caller of the service
StartReturns(t, r) ==
    IF mloc[t].restart
    THEN /\ mpc' = [mpc EXCEPT ![t] = "restart_done"]
         /\ mret' = [mret EXCEPT ![t] = r]
         /\ UNCHANGED mloc
    ELSE MReturn(t, r)

StartResult(t, result) ==
    [NoResult EXCEPT !.op = "start", !.result = result, !.env = mloc[t].env,
                     !.alive = mloc[t].alive]

\* thread t, outside every call, calls start_monitoring (while fewer than
\* cap observers have been created)
StartMonitoring(t, cap) ==
    /\ mpc[t] = "idle"
    /\ pc[t] = "idle"
    /\ Len(observers) < cap
    /\ MGoto(t, "start_check", NoCall)
    /\ UNCHANGED <<is_monitoring, observer, handler, start_time, restart_count,
                   restart_delay, last_error, error_count, shutdown_requested,
                   observers, handlers, mret>>
    /\ UNCHANGED <<auditVars, now>>
    /\ UNCHANGED handlerVars

\* a start_monitoring that never takes the service for started
NeverActive == FALSE

\* if self.is_monitoring, at the head of start_monitoring
AlreadyActive == is_monitoring

\* start_monitoring: the check of is_monitoring, and the clearing of
\* last_error
StartCheck(t) ==
    /\ mpc[t] = "start_check"
    /\ IF AlreadyActive
       THEN /\ StartReturns(t, [StartResult(t, TRUE) EXCEPT !.noop = TRUE])
            /\ UNCHANGED last_error
       ELSE /\ last_error' = None
            /\ MGoto(t, "start_preflight", mloc[t])
            /\ UNCHANGED mret
    /\ UNCHANGED <<is_monitoring, observer, handler, start_time, restart_count,
                   restart_delay, error_count, shutdown_requested, observers,
                   handlers>>
    /\ UNCHANGED <<auditVars, now>>
    /\ UNCHANGED handlerVars

\* verify_tokens (and create_honey_tokens, verify_tokens again when tokens
\* are missing), get_token_paths, the checks of the watch directory
StartPreflight(t) ==
    /\ mpc[t] = "start_preflight"
    /\ \E env \in Environments :
         IF PreflightError(env) # None
         THEN /\ last_error' = PreflightError(env)
              /\ StartReturns(t, StartResult(t, FALSE))
         ELSE /\ MGoto(t, "start_handler", [mloc[t] EXCEPT !.env = env])
              /\ UNCHANGED <<last_error, mret>>
    /\ UNCHANGED <<is_monitoring, observer, handler, start_time, restart_count,
                   restart_delay, error_count, shutdown_requested, observers,
                   handlers>>
    /\ UNCHANGED <<auditVars, now>>
    /\ UNCHANGED handlerVars

\* self.handler = HoneyTokenHandler(token_paths, self.audit_logger)
StartCreateHandler(t) ==
    /\ mpc[t] = "start_handler"
    /\ handlers' = handlers + 1
    /\ handler' = handlers + 1
    /\ MGoto(t, "start_observer", mloc[t])
    /\ UNCHANGED <<is_monitoring, observer, start_time, restart_count,
                   restart_delay, last_error, error_count, shutdown_requested,
                   observers, mret>>
    /\ UNCHANGED <<auditVars, now>>
    /\ UNCHANGED handlerVars

\* self.observer = Observer(); self.observer.schedule(...)
StartCreateObserver(t) ==
    /\ mpc[t] = "start_observer"
    /\ observers' = Append(observers, "new")
    /\ observer' = Len(observers) + 1
    /\ MGoto(t, "start_start", mloc[t])
    /\ UNCHANGED <<is_monitoring, handler, start_time, restart_count,
                   restart_delay, last_error, error_count, shutdown_requested,
                   handlers, mret>>
    /\ UNCHANGED <<auditVars, now>>
    /\ UNCHANGED handlerVars

\* self.observer.start(): an observer that was not started yet starts or
\* fails to; on None (AttributeError) and on a started observer
\* (RuntimeError) the call raises, and start_monitoring returns False
StartObserver(t) ==
    /\ mpc[t] = "start_start"
    /\ IF observer # 0 /\ observers[observer] = "new"
       THEN \E started \in BOOLEAN :
              IF started
              THEN /\ observers' = [observers EXCEPT ![observer] = "alive"]
                   /\ MGoto(t, "start_alive", mloc[t])
                   /\ UNCHANGED <<last_error, mret>>
              ELSE /\ last_error' = "Failed to start file observer"
                   /\ StartReturns(t, StartResult(t, FALSE))
                   /\ UNCHANGED observers
       ELSE /\ last_error' = "Failed to start file observer"
            /\ StartReturns(t, StartResult(t, FALSE))
            /\ UNCHANGED observers
    /\ UNCHANGED <<is_monitoring, observer, handler, start_time, restart_count,
                   restart_delay, error_count, shutdown_requested, handlers>>
    /\ UNCHANGED <<auditVars, now>>
    /\ UNCHANGED handlerVars

\* time.sleep(0.5); if not self.observer.is_alive(): return False (on None
\* the call raises, and start_monitoring returns False)
StartIsAlive(t) ==
    /\ mpc[t] = "start_alive"
    /\ IF observer # 0 /\ ObserverIsAlive
       THEN /\ MGoto(t, "start_mark",
                     [mloc[t] EXCEPT !.alive = ObserverIsAlive])
            /\ UNCHANGED <<last_error, mret>>
       ELSE /\ last_error' = (IF observer = 0 THEN "Failed to start file observer"
                              ELSE "File observer failed to start properly")
            /\ StartReturns(t, StartResult(t, FALSE))
    /\ UNCHANGED <<is_monitoring, observer, handler, start_time, restart_count,
                   restart_delay, error_count, shutdown_requested, observers,
                   handlers>>
    /\ UNCHANGED <<auditVars, now>>
    /\ UNCHANGED handlerVars

\* self.is_monitoring = True; self.start_time = datetime.utcnow();
\* self.error_count = 0
StartMark(t) ==
    /\ mpc[t] = "start_mark"
    /\ is_monitoring' = TRUE
    /\ start_time' = now
    /\ error_count' = 0
    /\ MGoto(t, "start_audit", mloc[t])
    /\ UNCHANGED <<observer, handler, restart_count, restart_delay, last_error,
                   shutdown_requested, observers, handlers, mret>>
    /\ UNCHANGED <<auditVars, now>>
    /\ UNCHANGED handlerVars

\* self.audit_logger.set_monitoring_status(True); return True
StartAudit(t) ==
    /\ mpc[t] = "start_audit"
    /\ SetMonitoringStatus(TRUE)
    /\ StartReturns(t, StartResult(t, TRUE))
    /\ UNCHANGED <<is_monitoring, observer, handler, start_time, restart_count,
                   restart_delay, last_error, error_count, shutdown_requested,
                   observers, handlers, now>>
    /\ UNCHANGED handlerVars

\* the steps of start_monitoring after the call
StartStep(t) ==
    \/ StartCheck(t)
    \/ StartPreflight(t)
    \/ StartCreateHandler(t)
    \/ StartCreateObserver(t)
    \/ StartObserver(t)
    \/ StartIsAlive(t)
    \/ StartMark(t)
    \/ StartAudit(t)

\* ---- stop_monitoring ---------------------------------------------------

\* stop_monitoring returns: to restart_monitoring when called from it, else
\* to the caller of the service
StopReturns(t, r) ==
    IF mloc[t].restart
    THEN /\ mpc' = [mpc EXCEPT ![t] = "restart_sleep"]
         /\ mret' = [mret EXCEPT ![t] = r]
         /\ UNCHANGED mloc
    ELSE MReturn(t, r)

StopResult(result) == [NoResult EXCEPT !.op = "stop", !.result = result]

\* thread t, outside every call, calls stop_monitoring
StopMonitoring(t) ==
    /\ mpc[t] = "idle"
    /\ pc[t] = "idle"
    /\ MGoto(t, "stop_check", NoCall)
    /\ UNCHANGED <<is_monitoring, observer, handler, start_time, restart_count,
                   restart_delay, last_error, error_count, shutdown_requested,
                   observers, handlers, mret>>
    /\ UNCHANGED <<auditVars, now>>
    /\ UNCHANGED handlerVars

\* stop_monitoring: the check of is_monitoring; self.shutdown_requested = True
StopCheck(t) ==
    /\ mpc[t] = "stop_check"
    /\ IF ~is_monitoring
       THEN /\ StopReturns(t, [StopResult(TRUE) EXCEPT !.noop = TRUE])
            /\ UNCHANGED shutdown_requested
       ELSE /\ shutdown_requested' = TRUE
            /\ MGoto(t, "stop_join", mloc[t])
            /\ UNCHANGED mret
    /\ UNCHANGED <<is_monitoring, observer, handler, start_time, restart_count,
                   restart_delay, last_error, error_count, observers, handlers>>
    /\ UNCHANGED <<auditVars, now>>
    /\ UNCHANGED handlerVars

\* the auto-restart thread exists and has not ended
WorkerAlive == mpc[Worker] \notin {"w_none", "w_exited"}

\* the auto-restart thread is in a sleep or in a join with a timeout
WorkerWaits ==
    mpc[Worker] \in {"w_sleep", "w_backoff", "restart_sleep", "start_alive",
                     "stop_join", "stop_observer"}

\* self.auto_restart_thread.join(timeout=2), when the thread is alive: it
\* returns when the thread has ended, or after the timeout, which elapses
\* while the thread waits; called by the thread itself it raises, and the
\* exception is caught
StopJoin(t) ==
    /\ mpc[t] = "stop_join"
    /\ t = Worker \/ ~WorkerAlive \/ WorkerWaits
    /\ MGoto(t, "stop_observer", mloc[t])
    /\ UNCHANGED <<is_monitoring, observer, handler, start_time, restart_count,
                   restart_delay, last_error, error_count, shutdown_requested,
                   observers, handlers, mret>>
    /\ UNCHANGED <<auditVars, now>>
    /\ UNCHANGED handlerVars

\* if self.observer: stop(), join(timeout=10), unschedule_all(): the
\* observer thread ends, or it stays alive (stop or join raising, or the
\* thread outliving the timeout); every exception is caught
StopObserver(t) ==
    /\ mpc[t] = "stop_observer"
    /\ IF observer # 0
       THEN \E ends \in BOOLEAN :
              observers' = IF ends \/ ~ObserverIsAlive
                           THEN [observers EXCEPT ![observer] = "dead"]
                           ELSE [observers EXCEPT ![observer] = "stopping"]
       ELSE UNCHANGED observers
    /\ MGoto(t, "stop_audit", mloc[t])
    /\ UNCHANGED <<is_monitoring, observer, handler, start_time, restart_count,
                   restart_delay, last_error, error_count, shutdown_requested,
                   handlers, mret>>
    /\ UNCHANGED <<auditVars, now>>
    /\ UNCHANGED handlerVars

\* self.audit_logger.set_monitoring_status(False)
StopAudit(t) ==
    /\ mpc[t] = "stop_audit"
    /\ SetMonitoringStatus(FALSE)
    /\ MGoto(t, "stop_clean", mloc[t])
    /\ UNCHANGED <<is_monitoring, observer, handler, start_time, restart_count,
                   restart_delay, last_error, error_count, shutdown_requested,
                   observers, handlers, mret, now>>
    /\ UNCHANGED handlerVars

\* a stop_monitoring that returns with the flag still raised
ShutdownFlagLeftRaised == TRUE

\* self.shutdown_requested = False, at the end of stop_monitoring
ShutdownFlagAfterStop == FALSE

\* a stop_monitoring that returns with the observer and the handler still
\* referenced
StopKeepsHandles(t) ==
    /\ mpc[t] = "stop_clean"
    /\ is_monitoring' = FALSE
    /\ shutdown_requested' = ShutdownFlagAfterStop
    /\ StopReturns(t, StopResult(TRUE))
    /\ UNCHANGED <<observer, handler, start_time, restart_count, restart_delay,
                   last_error, error_count, observers, handlers>>
    /\ UNCHANGED <<auditVars, now>>
    /\ UNCHANGED handlerVars

\* self.is_monitoring = False; self.observer = None; self.handler = None;
\* self.shutdown_requested = False; return True
StopClean(t) ==
    /\ mpc[t] = "stop_clean"
    /\ is_monitoring' = FALSE
    /\ observer' = 0
    /\ handler' = 0
    /\ shutdown_requested' = ShutdownFlagAfterStop
    /\ StopReturns(t, StopResult(TRUE))
    /\ UNCHANGED <<start_time, restart_count, restart_delay, last_error,
                   error_count, observers, handlers>>
    /\ UNCHANGED <<auditVars, now>>
    /\ UNCHANGED handlerVars

\* the steps of stop_monitoring after the call
StopStep(t) ==
    \/ StopCheck(t)
    \/ StopJoin(t)
    \/ StopObserver(t)
    \/ StopAudit(t)
    \/ StopClean(t)

\* ---- restart_monitoring ------------------------------------------------

\* restart_monitoring returns: to the worker loop when the worker called
\* it, else to the caller of the service
RestartReturns(t, r) ==
    IF t = Worker
    THEN /\ mpc' = [mpc EXCEPT ![t] = "w_restarted"]
         /\ mloc' = [mloc EXCEPT ![t] = NoCall]
         /\ mret' = [mret EXCEPT ![t] = r]
    ELSE MReturn(t, r)

RestartResult(result) == [NoResult EXCEPT !.op = "restart", !.result = result]

\* thread t, outside every call, calls restart_monitoring (while fewer than
\* cap observers have been created)
RestartMonitoring(t, cap) ==
    /\ mpc[t] = "idle"
    /\ pc[t] = "idle"
    /\ Len(observers) < cap
    /\ MGoto(t, "restart_check", NoCall)
    /\ UNCHANGED <<is_monitoring, observer, handler, start_time, restart_count,
                   restart_delay, last_error, error_count, shutdown_requested,
                   observers, handlers, mret>>
    /\ UNCHANGED <<auditVars, now>>
    /\ UNCHANGED handlerVars

\* restart_monitoring: the check of the budget; self.stop_monitoring()
RestartCheck(t) ==
    /\ mpc[t] = "restart_check"
    /\ IF restart_count >= max_restarts
       THEN RestartReturns(t, [RestartResult(FALSE) EXCEPT !.noop = TRUE])
       ELSE /\ MGoto(t, "stop_check", [NoCall EXCEPT !.restart = TRUE])
            /\ UNCHANGED mret
    /\ UNCHANGED <<is_monitoring, observer, handler, start_time, restart_count,
                   restart_delay, last_error, error_count, shutdown_requested,
                   observers, handlers>>
    /\ UNCHANGED <<auditVars, now>>
    /\ UNCHANGED handlerVars

\* time.sleep(self.restart_delay); self.start_monitoring()
RestartSleep(t) ==
    /\ mpc[t] = "restart_sleep"
    /\ MGoto(t, "start_check", mloc[t])
    /\ UNCHANGED <<is_monitoring, observer, handler, start_time, restart_count,
                   restart_delay, last_error, error_count, shutdown_requested,
                   observers, handlers, mret>>
    /\ UNCHANGED <<auditVars, now>>
    /\ UNCHANGED handlerVars

\* a back-off that adds a second instead of doubling
NextRestartDelayLinear(delay) ==
    IF delay + 1 < MaxRestartDelay THEN delay + 1 ELSE MaxRestartDelay

\* min(self.restart_delay * 2, 60)
NextRestartDelay(delay) ==
    IF delay * 2 < MaxRestartDelay THEN delay * 2 ELSE MaxRestartDelay

\* a restart_monitoring that does not count its successes
RestartDoneUncounted(t) ==
    /\ mpc[t] = "restart_done"
    /\ restart_delay' = IF mret[t].result THEN NextRestartDelay(restart_delay)
                        ELSE restart_delay
    /\ RestartReturns(t, RestartResult(mret[t].result))
    /\ UNCHANGED <<is_monitoring, observer, handler, start_time, restart_count,
                   last_error, error_count, shutdown_requested, observers,
                   handlers>>
    /\ UNCHANGED <<auditVars, now>>
    /\ UNCHANGED handlerVars

\* if success: self.restart_count += 1; self.restart_delay = min(...);
\* return success
RestartDone(t) ==
    /\ mpc[t] = "restart_done"
    /\ IF mret[t].result
       THEN /\ restart_count' = restart_count + 1
            /\ restart_delay' = NextRestartDelay(restart_delay)
       ELSE UNCHANGED <<restart_count, restart_delay>>
    /\ RestartReturns(t, RestartResult(mret[t].result))
    /\ UNCHANGED <<is_monitoring, observer, handler, start_time, last_error,
                   error_count, shutdown_requested, observers, handlers>>
    /\ UNCHANGED <<auditVars, now>>
    /\ UNCHANGED handlerVars

\* the steps of restart_monitoring itself, after the call
RestartStep(t) ==
    \/ RestartCheck(t)
    \/ RestartSleep(t)
    \/ RestartDone(t)

\* ---- the auto-restart worker -------------------------------------------

\* start_auto_restart_monitoring, called by thread t: nothing when the
\* thread is alive; else self.shutdown_requested = False and the thread of
\* _auto_restart_worker is started
StartAutoRestartMonitoring(t) ==
    /\ mpc[t] = "idle"
    /\ pc[t] = "idle"
    /\ t # Worker
    /\ IF WorkerAlive
       THEN UNCHANGED <<shutdown_requested, mpc>>
       ELSE /\ shutdown_requested' = FALSE
            /\ mpc' = [mpc EXCEPT ![Worker] = "w_loop"]
    /\ mret' = [mret EXCEPT ![t] = [NoResult EXCEPT !.op = "start_auto_restart",
                                                   !.result = TRUE,
                                                   !.noop = WorkerAlive]]
    /\ UNCHANGED <<is_monitoring, observer, handler, start_time, restart_count,
                   restart_delay, last_error, error_count, observers, handlers,
                   mloc>>
    /\ UNCHANGED <<auditVars, now>>
    /\ UNCHANGED handlerVars

\* the worker goes to step p
WorkerGoto(p) ==
    /\ mpc' = [mpc EXCEPT ![Worker] = p]
    /\ UNCHANGED <<mloc, mret>>

\* while not self.shutdown_requested
WorkerLoop ==
    /\ mpc[Worker] = "w_loop"
    /\ WorkerGoto(IF shutdown_requested THEN "w_exited" ELSE "w_check")
    /\ UNCHANGED <<is_monitoring, observer, handler, start_time, restart_count,
                   restart_delay, last_error, error_count, shutdown_requested,
                   observers, handlers>>
    /\ UNCHANGED <<auditVars, now>>
    /\ UNCHANGED handlerVars

\* if not self.is_running() and not self.shutdown_requested: break when the
\* budget is used up, else self.restart_monitoring() (while fewer than cap
\* observers have been created)
WorkerCheck(cap) ==
    /\ mpc[Worker] = "w_check"
    /\ IF ~IsRunning /\ ~shutdown_requested
       THEN IF restart_count >= max_restarts
            THEN WorkerGoto("w_exited")
            ELSE Len(observers) < cap /\ WorkerGoto("restart_check")
       ELSE WorkerGoto("w_health")
    /\ UNCHANGED <<is_monitoring, observer, handler, start_time, restart_count,
                   restart_delay, last_error, error_count, shutdown_requested,
                   observers, handlers>>
    /\ UNCHANGED <<auditVars, now>>
    /\ UNCHANGED handlerVars

\* restart_monitoring returned to the worker: on False it sleeps
\* min(self.restart_delay * 2, 60) and continues
WorkerRestarted ==
    /\ mpc[Worker] = "w_restarted"
    /\ WorkerGoto(IF mret[Worker].result THEN "w_health" ELSE "w_backoff")
    /\ UNCHANGED <<is_monitoring, observer, handler, start_time, restart_count,
                   restart_delay, last_error, error_count, shutdown_requested,
                   observers, handlers>>
    /\ UNCHANGED <<auditVars, now>>
    /\ UNCHANGED handlerVars

\* the sleep after a failed restart ends
WorkerBackoff ==
    /\ mpc[Worker] = "w_backoff"
    /\ WorkerGoto("w_loop")
    /\ UNCHANGED <<is_monitoring, observer, handler, start_time, restart_count,
                   restart_delay, last_error, error_count, shutdown_requested,
                   observers, handlers>>
    /\ UNCHANGED <<auditVars, now>>
    /\ UNCHANGED handlerVars

\* what _perform_health_check stores in last_error: nothing, or the
\* message of the check that failed last
HealthFindings ==
    {None, "Observer thread died", "Token verification error",
     "Watch directory missing", "Watch directory not readable"}

\* the findings of a health check that fails on a running service
FailingFindings == HealthFindings \ {None, "Observer thread died"}

\* if self.is_running(): self._perform_health_check(), the check finding
\* one of findings
WorkerHealthFinds(findings) ==
    /\ mpc[Worker] = "w_health"
    /\ IF IsRunning
       THEN \E finding \in findings :
              last_error' = IF finding = None THEN last_error ELSE finding
       ELSE UNCHANGED last_error
    /\ WorkerGoto("w_sleep")
    /\ UNCHANGED <<is_monitoring, observer, handler, start_time, restart_count,
                   restart_delay, error_count, shutdown_requested, observers,
                   handlers>>
    /\ UNCHANGED <<auditVars, now>>
    /\ UNCHANGED handlerVars

\* if self.is_running(): self._perform_health_check()
WorkerHealth == WorkerHealthFinds(HealthFindings \ {"Observer thread died"})

\* time.sleep(self.health_check_interval) ends
WorkerSleep ==
    /\ mpc[Worker] = "w_sleep"
    /\ WorkerGoto("w_reset")
    /\ UNCHANGED <<is_monitoring, observer, handler, start_time, restart_count,
                   restart_delay, last_error, error_count, shutdown_requested,
                   observers, handlers>>
    /\ UNCHANGED <<auditVars, now>>
    /\ UNCHANGED handlerVars

\* (datetime.utcnow() - self.start_time).total_seconds(), a float, is
\* above seconds
UptimeAbove(seconds) == now - start_time > seconds * TicksPerSec

\* a worker that resets the count of a running service whatever its uptime
WorkerResetEarly ==
    /\ mpc[Worker] = "w_reset"
    /\ IF IsRunning /\ restart_count > 0
       THEN /\ restart_count' = 0
            /\ restart_delay' = InitialRestartDelay
       ELSE UNCHANGED <<restart_count, restart_delay>>
    /\ WorkerGoto("w_loop")
    /\ UNCHANGED <<is_monitoring, observer, handler, start_time, last_error,
                   error_count, shutdown_requested, observers, handlers>>
    /\ UNCHANGED <<auditVars, now>>
    /\ UNCHANGED handlerVars

\* time.sleep(self.health_check_interval), the clock advancing by the
\* interval (while fewer than MaxSleeps intervals have passed)
WorkerSleepThrough ==
    /\ mpc[Worker] = "w_sleep"
    /\ now < MaxSleeps * health_check_interval * TicksPerSec
    /\ now' = now + health_check_interval * TicksPerSec
    /\ WorkerGoto("w_reset")
    /\ UNCHANGED <<is_monitoring, observer, handler, start_time, restart_count,
                   restart_delay, last_error, error_count, shutdown_requested,
                   observers, handlers>>
    /\ UNCHANGED auditVars
    /\ UNCHANGED handlerVars

\* the restart count and delay are reset after 5 minutes of running
WorkerReset ==
    /\ mpc[Worker] = "w_reset"
    /\ IF IsRunning /\ restart_count > 0 /\ UptimeAbove(StableSeconds)
       THEN /\ restart_count' = 0
            /\ restart_delay' = InitialRestartDelay
       ELSE UNCHANGED <<restart_count, restart_delay>>
    /\ WorkerGoto("w_loop")
    /\ UNCHANGED <<is_monitoring, observer, handler, start_time, last_error,
                   error_count, shutdown_requested, observers, handlers>>
    /\ UNCHANGED <<auditVars, now>>
    /\ UNCHANGED handlerVars

\* if self.error_count > 10, in _auto_restart_worker
WorkerErrorLimit == 10

\* a statement of the loop body of _auto_restart_worker raises (outside
\* restart_monitoring and _perform_health_check, which catch what they
\* raise): self.error_count += 1, self.last_error is set, and the loop is
\* left when the count is above 10, else entered again after time.sleep(30)
WorkerRaises ==
    /\ mpc[Worker] \in {"w_check", "w_restarted", "w_health", "w_sleep", "w_reset"}
    /\ error_count' = error_count + 1
    /\ last_error' = "Auto-restart worker error"
    /\ WorkerGoto(IF error_count' > WorkerErrorLimit THEN "w_exited" ELSE "w_loop")
    /\ UNCHANGED <<is_monitoring, observer, handler, start_time, restart_count,
                   restart_delay, shutdown_requested, observers, handlers>>
    /\ UNCHANGED <<auditVars, now>>
    /\ UNCHANGED handlerVars

\* the steps of _auto_restart_worker, those of the restart_monitoring it
\* calls included
WorkerStep(cap) ==
    \/ WorkerLoop
    \/ WorkerCheck(cap)
    \/ RestartStep(Worker)
    \/ StopStep(Worker)
    \/ StartStep(Worker)
    \/ WorkerRestarted
    \/ WorkerBackoff
    \/ WorkerHealth
    \/ WorkerSleep
    \/ WorkerReset

\* ---- HoneyTokenHandler --------------------------------------------------

\* self.honey_token_paths: the resolved paths of the honey-tokens
WatchSet == {"a.txt"}

\* str(Path(file_path).resolve()): a link resolves to its target
Resolve(path) == IF path = "link_a.txt" THEN "a.txt" ELSE path

\* self._is_honey_token(file_path)
IsHoneyToken(path) == Resolve(path) \in WatchSet

\* the notifications of the observer for on_accessed, on_modified and
\* on_deleted
Notifications ==
    [kind : {"accessed", "modified", "deleted"}, is_directory : BOOLEAN,
     src_path : {"a.txt", "link_a.txt", "other.txt"}]

\* the event type that on_accessed, on_modified and on_deleted pass on
EventTypeOf(kind) ==
    CASE kind = "accessed" -> "file_accessed"
      [] kind = "modified" -> "file_modified"
      [] kind = "deleted" -> "file_deleted"

\* except (psutil.NoSuchProcess, psutil.AccessDenied, psutil.ZombieProcess)
\* in HoneyTokenHandler._get_process_info
HandlerCatches(outcome) ==
    outcome \in {"NoSuchProcess", "AccessDenied", "ZombieProcess"}

\* on_accessed / on_modified / on_deleted with a notification, up to the
\* call of self.audit_logger.log_attack_event: for a file of the watch set
\* _log_attack_event counts the event and asks psutil; an exception that
\* _get_process_info does not catch ends the callback
OnEvent(t) ==
    /\ pc[t] = "idle"
    /\ pending.seq # calls
    /\ notified < MaxEvents
    /\ \E note \in Notifications, outcome \in Introspections :
         IF ~note.is_directory /\ IsHoneyToken(note.src_path)
         THEN /\ notified' = notified + 1
              /\ event_count' = event_count + 1
              /\ pending' =
                   IF outcome = "ok" \/ HandlerCatches(outcome)
                   THEN [note |-> note, outcome |-> outcome, seq |-> calls,
                         input |-> <<EventTypeOf(note.kind), note.src_path,
                                     <<"given", IF outcome = "ok" THEN "python"
                                                ELSE "Unknown">>>>,
                         rest |-> <<>>,
                         emitted |-> <<<<EventTypeOf(note.kind), note.src_path>>>>]
                   ELSE [note |-> note, outcome |-> outcome, seq |-> -1,
                         input |-> <<>>, rest |-> <<>>,
                         emitted |-> <<<<EventTypeOf(note.kind), note.src_path>>>>]
         ELSE /\ pending' = [pending EXCEPT !.note = note, !.outcome = "none",
                                            !.emitted = <<>>]
              /\ UNCHANGED <<event_count, notified>>
    /\ UNCHANGED <<is_monitoring, observer, handler, start_time, restart_count,
                   restart_delay, last_error, error_count, shutdown_requested,
                   observers, handlers, mpc, mloc, mret>>
    /\ UNCHANGED <<auditVars, now>>

\* self.audit_logger.log_attack_event(event_type, file_path, process_info,
\* ip_address), called by _log_attack_event
HandlerLog(t) ==
    /\ pending.seq = calls
    /\ LogBegin(t, {pending.input})

\* the notifications of the observer for on_moved; has_dest: the event has
\* a dest_path attribute
MoveNotifications ==
    [kind : {"moved"}, is_directory : BOOLEAN, src_path : {"a.txt", "other.txt"},
     has_dest : BOOLEAN, dest_path : {"link_a.txt", "other.txt"}]

\* on_moved: the _log_attack_event calls it makes when none of them raises,
\* in their order
MovedEmissions(note) ==
    IF note.is_directory THEN <<>>
    ELSE IF note.has_dest
    THEN (IF IsHoneyToken(note.src_path)
          THEN <<<<"file_moved_from", note.src_path>>>> ELSE <<>>)
         \o (IF IsHoneyToken(note.dest_path)
             THEN <<<<"file_moved_to", note.dest_path>>>> ELSE <<>>)
    ELSE IF IsHoneyToken(note.src_path)
    THEN <<<<"file_moved", note.src_path>>>>
    ELSE <<>>

\* _log_attack_event(e[1], e[2]) up to the call of
\* self.audit_logger.log_attack_event, in the callback for note that has
\* the calls of rest still to make: the event is counted and psutil asked;
\* an exception that _get_process_info does not catch ends the callback
Emit(note, e, outcome, rest, emitted) ==
    /\ event_count' = event_count + 1
    /\ pending' =
         IF outcome = "ok" \/ HandlerCatches(outcome)
         THEN [note |-> note, outcome |-> outcome, seq |-> calls,
               input |-> <<e[1], e[2], <<"given", IF outcome = "ok" THEN "python"
                                                 ELSE "Unknown">>>>,
               rest |-> rest, emitted |-> Append(emitted, e)]
         ELSE [note |-> note, outcome |-> outcome, seq |-> -1, input |-> <<>>,
               rest |-> <<>>, emitted |-> Append(emitted, e)]

\* on_moved with a notification, up to its first call of
\* self.audit_logger.log_attack_event
OnMoved(t) ==
    /\ pc[t] = "idle"
    /\ pending.seq # calls
    /\ pending.rest = <<>>
    /\ notified < MaxEvents
    /\ \E note \in MoveNotifications, outcome \in Introspections :
         IF MovedEmissions(note) # <<>>
         THEN /\ notified' = notified + 1
              /\ Emit(note, Head(MovedEmissions(note)), outcome,
                      Tail(MovedEmissions(note)), <<>>)
         ELSE /\ pending' = [note |-> note, outcome |-> "none", seq |-> -1,
                             input |-> <<>>, rest |-> <<>>, emitted |-> <<>>]
              /\ UNCHANGED <<event_count, notified>>
    /\ UNCHANGED <<is_monitoring, observer, handler, start_time, restart_count,
                   restart_delay, last_error, error_count, shutdown_requested,
                   observers, handlers, mpc, mloc, mret>>
    /\ UNCHANGED <<auditVars, now>>

\* on_moved after self.audit_logger.log_attack_event has returned or raised
\* for the source: the _log_attack_event call for the destination, which
\* is not made when the first one raised
OnMovedDest(t) ==
    /\ pc[t] = "idle"
    /\ pending.seq # calls
    /\ pending.rest # <<>>
    /\ IF ret[t].ok
       THEN \E outcome \in Introspections :
              Emit(pending.note, Head(pending.rest), outcome, Tail(pending.rest),
                   pending.emitted)
       ELSE /\ pending' = [pending EXCEPT !.rest = <<>>]
            /\ UNCHANGED event_count
    /\ UNCHANGED notified
    /\ UNCHANGED <<is_monitoring, observer, handler, start_time, restart_count,
                   restart_delay, last_error, error_count, shutdown_requested,
                   observers, handlers, mpc, mloc, mret>>
    /\ UNCHANGED <<auditVars, now>>

\* ------------------------------------------------------------------------
\* Specifications
\* ------------------------------------------------------------------------

\* the thread that delivers file-system notifications, and a request thread
Notifier == "t1"

Requester == "t2"

\* what the notification threads record: one file each
ThreadInputs(t) == {<<"file_accessed", IF t = Notifier THEN "a.txt" ELSE "b.txt">>}

\* a notification thread records events while a request thread resets the
\* system and signals monitoring start/stop (all within one tick of the clock)
Next ==
    \/ LogStep(Notifier, ThreadInputs(Notifier))
    \/ ResetStep(Requester)
    \/ SetMonitoringStep(Requester)

Spec == Init /\ [][Next]_vars

\* threads that record concurrently (notifications for distinct files)
LogNext == (\E t \in Threads : LogStep(t, ThreadInputs(t))) \/ Tick

LogSpec == Init /\ [][LogNext]_vars

\* recording threads, and restarts of the process (all within one tick of
\* the clock)
RestartNext ==
    \/ \E t \in Threads : LogStep(t, ThreadInputs(t))
    \/ NewInstance
    \/ CrashRestart

RestartSpec == Init /\ [][RestartNext]_vars

\* one caller at a time, every call returning before the next one starts:
\* the calls that write, the status and list reads, new instances
SeqNext ==
    \/ LogStep(MainThread, LogInputs)
    \/ ResetStep(MainThread)
    \/ SetMonitoringStep(MainThread)
    \/ GetSystemStatus(MainThread)
    \/ GetAllAttacks(MainThread)
    \/ NewInstance
    \/ Tick

SeqSpec == Init /\ [][SeqNext]_vars

\* one caller at a time that records and resets, on a disk where the unlink
\* and the writes can fail
FaultyNext ==
    \/ LogStep(MainThread, LogInputs)
    \/ LogOpenFails(MainThread)
    \/ LogDumpFails(MainThread)
    \/ ResetStep(MainThread)
    \/ ResetUnlinkFails(MainThread)
    \/ ResetStatusOpenFails(MainThread)
    \/ ResetStatusDumpFails(MainThread)

FaultySpec == Init /\ [][FaultyNext]_vars

\* the same calls after a construction that found an attacks.json that
\* json.load cannot parse
MalformedInit == AuditInitOn(BadFile(1), AbsentFile) /\ MonitorInit

MalformedSpec == MalformedInit /\ [][SeqNext]_vars

\* the same calls after a construction that found a system_status.json
\* that json.load cannot parse
UnloadableInit == AuditInitOn(AbsentFile, BadFile(1)) /\ MonitorInit

UnloadableSpec == UnloadableInit /\ [][SeqNext]_vars

\* one caller at a time: recording, and the reads of the recent events
RecentNext ==
    \/ LogStep(MainThread, LogInputs)
    \/ GetRecentAttacks(MainThread)
    \/ ApiGetRecentAttacks(MainThread)
    \/ Tick

RecentSpec == Init /\ [][RecentNext]_vars

\* the notifications recorded for the statistics: two kinds of event on two
\* files
StatInputs ==
    {<<"file_accessed", "a.txt">>, <<"file_accessed", "b.txt">>,
     <<"file_modified", "a.txt">>, <<"file_modified", "b.txt">>}

\* one caller at a time: recording, resets, and the statistics (all within
\* one tick of the clock)
StatsNext ==
    \/ LogStep(MainThread, StatInputs)
    \/ ResetStep(MainThread)
    \/ GetAttackStatistics(MainThread)

StatsSpec == Init /\ [][StatsNext]_vars

\* a notification thread records events while a request thread reads the
\* event list
ReadNext ==
    \/ LogStep(Notifier, ThreadInputs(Notifier))
    \/ GetAllAttacks(Requester)
    \/ GetRecentAttacks(Requester)
    \/ Tick

ReadSpec == Init /\ [][ReadNext]_vars

\* one caller of the MonitorService at a time, observers that die, the clock
MonitorSeqNext ==
    \/ StartMonitoring(MainThread, MaxObservers)
    \/ StartStep(MainThread)
    \/ StopMonitoring(MainThread)
    \/ StopStep(MainThread)
    \/ RestartMonitoring(MainThread, MaxObservers)
    \/ RestartStep(MainThread)
    \/ ObserverDies
    \/ Tick

MonitorSeqSpec == Init /\ [][MonitorSeqNext]_vars

\* two request threads that start and stop the service (app.py runs the
\* server with threaded=True)
ConcNext ==
    \E t \in Threads :
        \/ StartMonitoring(t, MaxObservers)
        \/ StartStep(t)
        \/ StopMonitoring(t)
        \/ StopStep(t)

ConcSpec == Init /\ [][ConcNext]_vars

\* one caller that starts the auto-restart thread and starts and stops the
\* service, and the auto-restart thread
AutoNext ==
    \/ StartAutoRestartMonitoring(MainThread)
    \/ StartMonitoring(MainThread, MaxObservers)
    \/ StartStep(MainThread)
    \/ StopMonitoring(MainThread)
    \/ StopStep(MainThread)
    \/ WorkerStep(MaxObservers)

AutoSpec == Init /\ [][AutoNext]_vars

\* one caller at a time of the service (start, stop, restart) and of the
\* logger (log_attack_event, reset_system), every call returning before
\* the next one starts
LifecycleNext ==
    \/ StartMonitoring(MainThread, MaxObservers)
    \/ StartStep(MainThread)
    \/ StopMonitoring(MainThread)
    \/ StopStep(MainThread)
    \/ RestartMonitoring(MainThread, MaxObservers)
    \/ RestartStep(MainThread)
    \/ (mpc[MainThread] = "idle" /\ LogStep(MainThread, LogInputs))
    \/ (mpc[MainThread] = "idle" /\ ResetStep(MainThread))

LifecycleSpec == Init /\ [][LifecycleNext]_vars

\* a service in any of the states that get_status can be called in (a
\* request thread may read the fields between two assignments of another
\* thread), with one observer at most
HealthInit ==
    /\ AuditInit
    /\ is_monitoring \in BOOLEAN
    /\ last_error \in HealthFindings
    /\ error_count \in 0..MaxErrors
    /\ observers \in {<<>>, <<"alive">>, <<"stopping">>, <<"dead">>}
    /\ observer = Len(observers)
    /\ handler = Len(observers)
    /\ handlers = Len(observers)
    /\ start_time = IF Len(observers) = 0 THEN NoStartTime ELSE 0
    /\ restart_count = 0
    /\ restart_delay = InitialRestartDelay
    /\ shutdown_requested = FALSE
    /\ mpc = [t \in MonitorThreads |-> IF t = Worker THEN "w_none" ELSE "idle"]
    /\ mloc = [t \in MonitorThreads |-> NoCall]
    /\ mret = [t \in MonitorThreads |-> NoResult]
    /\ HandlerInit

\* a request thread asks for the status of the service
HealthNext == GetStatus(Requester)

HealthSpec == HealthInit /\ [][HealthNext]_vars

\* log_attack_event(event_type, file_path) called with no process_info
\* while psutil fails
DirectInputs ==
    {<<"file_accessed", "b.txt", <<"None", outcome>>>> :
       outcome \in Introspections \ {"ok"}}

\* the observer thread delivers notifications to the handler, one at a
\* time; between them log_attack_event is called with no process_info
HandlerNext ==
    \/ OnEvent(Notifier)
    \/ HandlerLog(Notifier)
    \/ (pending.seq # calls /\ LogStep(Notifier, DirectInputs))

HandlerSpec == Init /\ [][HandlerNext]_vars

\* the observer thread delivers move notifications to the handler, one at
\* a time
MoveNext ==
    \/ OnMoved(Notifier)
    \/ OnMovedDest(Notifier)
    \/ HandlerLog(Notifier)
    \/ LogLoad(Notifier)
    \/ LogOpen(Notifier)
    \/ LogDump(Notifier)
    \/ LogStatusLoad(Notifier)
    \/ LogStatusOpen(Notifier)
    \/ LogStatusDump(Notifier)
    \/ LogCounterRead(Notifier)
    \/ LogCounterWrite(Notifier)

MoveSpec == Init /\ [][MoveNext]_vars

\* a caller that starts the auto-restart thread, observers that die, the
\* thread with the time of its sleeps and with every health check failing,
\* and a request thread that asks for the status
FailingNext ==
    \/ StartAutoRestartMonitoring(MainThread)
    \/ ObserverDies
    \/ WorkerLoop
    \/ WorkerCheck(MaxObservers)
    \/ RestartStep(Worker)
    \/ StopStep(Worker)
    \/ StartStep(Worker)
    \/ WorkerRestarted
    \/ WorkerBackoff
    \/ WorkerHealthFinds(FailingFindings)
    \/ WorkerSleepThrough
    \/ WorkerReset
    \/ GetStatus(Requester)

FailingSpec == Init /\ [][FailingNext]_vars

\* a caller that starts the auto-restart thread, observers that die, and
\* the auto-restart thread with the time of its sleeps
StableNext ==
    \/ StartAutoRestartMonitoring(MainThread)
    \/ ObserverDies
    \/ WorkerLoop
    \/ WorkerCheck(MaxObservers)
    \/ RestartStep(Worker)
    \/ StopStep(Worker)
    \/ StartStep(Worker)
    \/ WorkerRestarted
    \/ WorkerBackoff
    \/ WorkerHealth
    \/ WorkerSleepThrough
    \/ WorkerReset

StableSpec == Init /\ [][StableNext]_vars

\* a caller that starts the auto-restart thread, observers that die, and
\* the thread restarting the service until the budget is used up
WorkerBudgetNext ==
    \/ StartAutoRestartMonitoring(MainThread)
    \/ ObserverDies
    \/ WorkerStep(MaxBudgetObservers)

WorkerBudgetSpec == Init /\ [][WorkerBudgetNext]_vars

\* a caller that starts the auto-restart thread once, observers that die,
\* and the thread with statements of its loop body that raise
RaisingNext ==
    \/ (mpc[Worker] = "w_none" /\ StartAutoRestartMonitoring(MainThread))
    \/ ObserverDies
    \/ WorkerStep(MaxObservers)
    \/ WorkerRaises

RaisingSpec == Init /\ [][RaisingNext]_vars

\* one caller that restarts the service until the budget is used up
BudgetNext ==
    \/ RestartMonitoring(MainThread, MaxBudgetObservers)
    \/ RestartStep(MainThread)
    \/ StopStep(MainThread)
    \/ StartStep(MainThread)

BudgetSpec == Init /\ [][BudgetNext]_vars

\* ------------------------------------------------------------------------
\* Properties
\* ------------------------------------------------------------------------

\* the events a reader of the log finds
Persisted == AllAttacks(attacksFile)

\* the number written in a stored attack_id
IdNumber(e) == ParseAttackId(e.attack_id)

\* thread t is inside log_attack_event, between its read of the counter and
\* its write of it
InLog(t) ==
    pc[t] \in {"log_load", "log_open", "log_dump", "log_status_load",
               "log_status_open", "log_status_dump", "log_counter_read",
               "log_counter_write"}

\* thread t is inside reset_system, between the unlink and the counter write
InReset(t) == pc[t] \in {"reset_open", "reset_dump", "reset_counter"}

\* C1: under every interleaving of concurrent log_attack_event calls the
\* attack_ids in the persisted store are pairwise distinct, and a call that
\* starts after another has completed carries the strictly greater id (here:
\* the call a thread has in progress against the call the same thread
\* completed before it).
C1_DistinctIncreasingIds ==
    /\ \A i, j \in 1..Len(Persisted) :
         i # j => Persisted[i].attack_id # Persisted[j].attack_id
    /\ \A t \in Threads :
         (InLog(t) /\ ret[t].op = "log" /\ ret[t].ok)
           => IdNumber(ret[t].ev) < IdNumber(loc[t].ev)

\* C2: when one log_attack_event call per thread has run, concurrently with
\* the others, and all of them have returned, the persisted list holds
\* exactly as many events as calls were made, and it is readable.
C2_NoLostEvents ==
    (/\ AllIdle
     /\ calls = Cardinality(Threads)
     /\ \A t \in Threads : ret[t].op = "log" /\ ret[t].ok)
      => /\ attacksFile.st = "ok"
         /\ Len(attacksFile.data) = calls

\* C3: no two calls of log_attack_event / reset_system are at the same time
\* between their first read and their last write of the store, the status
\* record or the counter.
C3_MutualExclusion ==
    \A t, u \in Threads :
        t # u => ~((InLog(t) \/ InReset(t)) /\ (InLog(u) \/ InReset(u)))

\* C5: whenever no call is in progress, the persisted total_attacks equals
\* the number of events in the persisted store.
C5_TotalEqualsStoredEvents ==
    AllIdle => /\ statusFile.st = "ok"
               /\ statusFile.data.total_attacks = Len(Persisted)

\* ---- one caller at a time -----------------------------------------------

\* the single caller is outside every method
Idle == pc[MainThread] = "idle"

\* what the last call of the single caller returned
Last == ret[MainThread]

\* the status record as persisted
Status == statusFile.data

\* 'ATK_001'
FirstId == <<65, 84, 75, 95, 48, 48, 49>>

\* C4: whenever the persisted status can be read, and in every status
\* get_system_status returns: status is UNDER_ATTACK iff total_attacks > 0.
C4_UnderAttackIffAttacks ==
    /\ statusFile.st = "ok"
         => (Status.status = "UNDER_ATTACK" <=> Status.total_attacks > 0)
    /\ Last.op = "get_status"
         => (Last.st.status = "UNDER_ATTACK" <=> Last.st.total_attacks > 0)

\* two events were recorded and monitoring was signalled active
C4_Witness ==
    /\ Idle
    /\ statusFile.st = "ok"
    /\ Status.status = "UNDER_ATTACK"
    /\ Status.total_attacks = 2
    /\ Status.monitoring_active

C7_CounterSeededFromStore ==
    fresh =>
      IF attacksFile.st = "ok" /\ attacksFile.data # <<>>
      THEN /\ \E i \in 1..Len(Persisted) : attack_counter = IdNumber(Persisted[i]) + 1
           /\ \A i \in 1..Len(Persisted) :
                IdNumber(Persisted[i]) < ParseAttackId(FormatAttackId(attack_counter))
      ELSE attack_counter = 1

\* a new instance over a store in which an id occurs twice
C7_Witness ==
    /\ fresh
    /\ attacksFile.st = "ok"
    /\ Len(Persisted) = 3
    /\ attack_counter # Len(Persisted) + 1
    /\ attack_counter > 1

\* C8: with one caller at a time (calls that overlap are the subject of C3
\* and C5), when log_attack_event has returned event e, the persisted status is
\* UNDER_ATTACK, its last_attack is e.timestamp, its total_attacks is one
\* more than before the call, and e is the last element of the persisted
\* list.
C8_LogUpdatesStatusAndStore ==
    (Idle /\ Last.op = "log" /\ Last.ok)
      => /\ statusFile.st = "ok"
         /\ Status.status = "UNDER_ATTACK"
         /\ Status.last_attack = Last.ev.timestamp
         /\ Status.total_attacks = Last.before + 1
         /\ attacksFile.st = "ok"
         /\ Persisted # <<>>
         /\ Persisted[Len(Persisted)] = Last.ev

\* the second event recorded after a reset
C8_Witness ==
    /\ Idle
    /\ Last.op = "log"
    /\ Last.ok
    /\ Last.before = 1
    /\ Len(Persisted) = 2
    /\ calls = 3

\* C9: after n log_attack_event calls with strictly increasing timestamps
\* (a case of non-decreasing ones), get_recent_attacks(limit) with
\* 1 <= limit <= 100 returns min(limit, n) events, the latest recorded
\* first.
C9_RecentFirst ==
    (/\ Idle
     /\ Last.op = "get_recent"
     /\ Last.arg \in MinLimit..MaxLimit
     /\ \A i \in 1..(Len(Persisted) - 1) :
          TickOf(Persisted[i].timestamp) < TickOf(Persisted[i + 1].timestamp))
      => /\ Len(Last.list) = (IF Last.arg < Len(Persisted) THEN Last.arg
                              ELSE Len(Persisted))
         /\ \A i \in 1..Len(Last.list) :
              Last.list[i] = Persisted[Len(Persisted) + 1 - i]

\* the query of /api/attacks holds a number in [1, 100]
ValidQuery(q) ==
    /\ q.present
    /\ IsIntText(q.text)
    /\ IntValue(q.text) \in MinLimit..MaxLimit

Stats == Last.stats

\* how many persisted events have value k in field f
Occurrences(f, k) == Cardinality({i \in 1..Len(Persisted) : Persisted[i][f] = k})

\* where value k of field f first occurs in the persisted list
FirstOccurrence(f, k) ==
    CHOOSE i \in 1..Len(Persisted) :
        /\ Persisted[i][f] = k
        /\ \A j \in 1..(i - 1) : Persisted[j][f] # k

RECURSIVE SumCounts(_)
SumCounts(d) == IF d = <<>> THEN 0 ELSE Head(d)[2] + SumCounts(Tail(d))

\* d is the histogram of field f of the persisted events: one item per
\* value that occurs, with its number of occurrences
IsHistogram(d, f) ==
    /\ \A i, j \in 1..Len(d) : i # j => d[i][1] # d[j][1]
    /\ \A i \in 1..Len(d) : d[i][2] = Occurrences(f, d[i][1]) /\ d[i][2] > 0
    /\ \A i \in 1..Len(Persisted) : \E j \in 1..Len(d) : d[j][1] = Persisted[i][f]
    /\ SumCounts(d) = Len(Persisted)

\* k occurs most often in field f, and among the values that occur as
\* often it is the one met first in storage order
IsFirstMostFrequent(k, f) ==
    /\ Occurrences(f, k) > 0
    /\ \A i \in 1..Len(Persisted) :
         \/ Occurrences(f, Persisted[i][f]) < Occurrences(f, k)
         \/ /\ Occurrences(f, Persisted[i][f]) = Occurrences(f, k)
            /\ FirstOccurrence(f, k) <= i

\* C11: the statistics returned over the persisted list: total_attacks is
\* its length, event_types and targeted_files are its histograms (counts
\* summing to the length), most_common_event and most_targeted_file are
\* keys of maximal count, the one first met in storage order among equals;
\* for an empty list: zero counts, empty histograms, None for both.
C11_StatisticsOfPersistedList ==
    (Idle /\ Last.op = "get_statistics")
      => IF Persisted = <<>>
         THEN /\ Stats.total_attacks = 0
              /\ Stats.event_types = <<>>
              /\ Stats.targeted_files = <<>>
              /\ Stats.most_common_event = None
              /\ Stats.most_targeted_file = None
         ELSE /\ Stats.total_attacks = Len(Persisted)
              /\ IsHistogram(Stats.event_types, "event_type")
              /\ IsHistogram(Stats.targeted_files, "filename")
              /\ IsFirstMostFrequent(Stats.most_common_event, "event_type")
              /\ IsFirstMostFrequent(Stats.most_targeted_file, "filename")

\* statistics over two events of different kinds on different files: both
\* histograms hold a tie, and the key stored first is reported
C11_Witness ==
    /\ Idle
    /\ Last.op = "get_statistics"
    /\ Len(Persisted) = 2
    /\ Persisted[1].filename = "b.txt"
    /\ Persisted[2].filename = "a.txt"
    /\ Persisted[1].event_type # Persisted[2].event_type
    /\ Stats.most_targeted_file = "b.txt"
    /\ Stats.most_common_event = Persisted[1].event_type

\* ---- set_monitoring_status ----------------------------------------------

\* status record a with the monitoring_active flag of b
WithFlagOf(a, b) == [a EXCEPT !.monitoring_active = b.monitoring_active]

\* C19: the write of set_monitoring_status replaces the persisted record by
\* one that differs from it in monitoring_active only (status, last_attack,
\* total_attacks and start_time are kept), and it leaves the event store and
\* the identifier counter as they are, also while a log_attack_event call of
\* another thread is in progress.
C19_SetMonitoringChangesOnlyFlag ==
    [][\A t \in Threads :
         (pc[t] = "mon_open" /\ pc'[t] = "mon_dump" /\ statusFile.st = "ok")
           => /\ WithFlagOf(loc[t].st, statusFile.data) = statusFile.data
              /\ attacksFile' = attacksFile
              /\ attack_counter' = attack_counter]_vars

\* ---- reads of the event list --------------------------------------------

\* thread t returns from get_all_attacks or get_recent_attacks in this step
ListReadReturns(t) ==
    /\ ret'[t] # ret[t]
    /\ ret'[t].op \in {"get_all", "get_recent"}

\* C20: get_all_attacks and get_recent_attacks return and do not raise; over
\* an absent or unparsable store they return the empty list; they leave the
\* store, the status record and the identifier counter as they are; over a
\* parsable store get_all_attacks returns the stored list, which is in
\* recording order (the ids, given out by a single recording thread, ascend).
C20_ListReadsNeverRaise ==
    [][\A t \in Threads :
         ListReadReturns(t)
           => /\ ret'[t].ok
              /\ attacksFile.st # "ok" => ret'[t].list = <<>>
              /\ (attacksFile.st = "ok" /\ ret'[t].op = "get_all")
                   => /\ ret'[t].list = attacksFile.data
                      /\ \A i, j \in 1..Len(ret'[t].list) :
                           i < j => IdNumber(ret'[t].list[i]) < IdNumber(ret'[t].list[j])
              /\ UNCHANGED <<attacksFile, statusFile, attack_counter>>]_vars

\* get_all_attacks returned the empty list although an event had been
\* recorded: it read the store while the recording thread was rewriting it
C20_Witness ==
    /\ ret[Requester].op = "get_all"
    /\ ret[Requester].ok
    /\ ret[Requester].list = <<>>
    /\ ret[Requester].before = 1

\* ------------------------------------------------------------------------
\* Properties of the MonitorService
\* ------------------------------------------------------------------------

\* the observers whose watch thread is alive
LiveObservers == {o \in 1..Len(observers) : observers[o] \in {"alive", "stopping"}}

\* what the single caller's last MonitorService call returned
MLast == mret[MainThread]

\* C12: a start_monitoring call that finds is_monitoring set returns True
\* and does nothing: no observer and no handler is created, and observer,
\* handler, start_time, restart_count and restart_delay (and the observers
\* that are alive) stay as they are.
C12_StartWhileRunningIsNoop ==
    [][\A t \in MonitorThreads :
         (mpc[t] = "start_check" /\ is_monitoring /\ mpc'[t] # "start_check")
           => /\ mret'[t].op = "start"
              /\ mret'[t].result
              /\ mpc'[t] \in {"idle", "restart_done"}
              /\ UNCHANGED <<is_monitoring, observer, handler, start_time,
                             restart_count, restart_delay, observers, handlers>>]_vars

\* a second start_monitoring, made some time after the one that started
\* the watch, has returned at its first check; one observer exists
C12_Witness ==
    /\ mpc[MainThread] = "idle"
    /\ MLast.op = "start"
    /\ MLast.noop
    /\ MLast.result
    /\ is_monitoring
    /\ start_time < now
    /\ Len(observers) = 1
    /\ LiveObservers = {1}
    /\ observer = 1

\* C14: a restart_monitoring call that finds restart_count at max_restarts
\* returns False at once (stop_monitoring and start_monitoring are not
\* entered), leaves is_monitoring, observer, handler, start_time,
\* restart_count and restart_delay as they are, and leaves an error in
\* last_error for the caller.
C14_BudgetExhaustedIsReported ==
    [][\A t \in MonitorThreads :
         (mpc[t] = "restart_check" /\ restart_count >= max_restarts
            /\ mpc'[t] # "restart_check")
           => /\ mret'[t].op = "restart"
              /\ ~mret'[t].result
              /\ mpc'[t] \notin {"stop_check", "start_check"}
              /\ UNCHANGED <<is_monitoring, observer, handler, start_time,
                             restart_count, restart_delay, observers, handlers>>
              /\ last_error' # None]_vars

\* the steps of start_monitoring
StartPcs ==
    {"start_check", "start_preflight", "start_handler", "start_observer",
     "start_start", "start_alive", "start_mark", "start_audit"}

\* the checks of start_monitoring passed with every token present (found
\* or recreated), a non-empty path list and a readable watch directory
ChecksPassed(env) ==
    /\ env.tokens \in {"present", "recreated"}
    /\ env.paths = "some"
    /\ env.dir = "ok"

\* C15: start_monitoring returns True only if its checks passed (tokens
\* present after at most one recreation, paths not empty, directory there
\* and readable) and the observer is alive; when it returns False,
\* is_monitoring is False and the stored monitoring_active is not True.
C15_StartTrueOnlyIfVerifiedAndAlive ==
    [][\A t \in MonitorThreads :
         (mpc[t] \in StartPcs /\ mpc'[t] \notin StartPcs)
           => IF mret'[t].result
              THEN /\ observer # 0
                   /\ IF mret'[t].noop
                      THEN ObserverIsAlive
                      ELSE mret'[t].alive /\ ChecksPassed(mret'[t].env)
              ELSE /\ ~is_monitoring'
                   /\ ~LoadSystemStatus'.monitoring_active]_vars

\* the steps of stop_monitoring
StopPcs == {"stop_check", "stop_join", "stop_observer", "stop_audit", "stop_clean"}

\* C16: every stop_monitoring call of the single caller can always take its
\* next step, whatever the observer does, and returns True; when it found
\* the service monitoring, on return is_monitoring is False, observer and
\* handler are None and the stored monitoring_active is False; when it found
\* the service not monitoring, it changed nothing.
C16_StopConverges ==
    /\ [](mpc[MainThread] \in StopPcs => ENABLED StopStep(MainThread))
    /\ [][(mpc[MainThread] \in StopPcs /\ mpc'[MainThread] \notin StopPcs)
            => /\ mret'[MainThread].op = "stop"
               /\ mret'[MainThread].result
               /\ IF mret'[MainThread].noop
                  THEN UNCHANGED <<is_monitoring, observer, handler, start_time,
                                   restart_count, restart_delay, last_error,
                                   error_count, shutdown_requested, observers,
                                   handlers, statusFile>>
                  ELSE /\ ~is_monitoring'
                       /\ observer' = 0
                       /\ handler' = 0
                       /\ ~LoadSystemStatus'.monitoring_active]_vars

\* stop_monitoring has returned although the observer it stopped is still
\* alive: the service is stopped and references no observer
C16_Witness ==
    /\ mpc[MainThread] = "idle"
    /\ MLast.op = "stop"
    /\ ~MLast.noop
    /\ MLast.result
    /\ Len(observers) = 1
    /\ LiveObservers = {1}
    /\ ~is_monitoring
    /\ observer = 0
    /\ handler = 0
    /\ ~LoadSystemStatus.monitoring_active

\* the observers that watch: started, alive, and not told to stop
Watching == {o \in 1..Len(observers) : observers[o] = "alive"}

\* C13: under every interleaving of start_monitoring and stop_monitoring
\* calls of two threads, at most one observer watches at any time, and an
\* observer that watches is the one the service references.
C13_OneReferencedObserver ==
    /\ Cardinality(Watching) <= 1
    /\ \A o \in Watching : observer = o

\* the caller's last call was a stop_monitoring that found the service
\* monitoring, and it has returned
StopReturned ==
    /\ mpc[MainThread] = "idle"
    /\ MLast.op = "stop"
    /\ ~MLast.noop

\* C17: once a stop_monitoring that found the service monitoring has
\* returned (and the caller makes no further call), the auto-restart thread
\* starts no observer.
C17_NoWatchAfterStop ==
    [][(StopReturned /\ StopReturned')
         => \A o \in 1..Len(observers) :
              ~(observers[o] = "new" /\ observers'[o] = "alive")]_vars

\* C18: whenever no call of the service or of the logger is in progress
\* (calls made one at a time), the stored monitoring_active equals
\* is_monitoring.
C18_FlagEqualsIsMonitoring ==
    (AllIdle /\ MonitorIdle)
      => (LoadSystemStatus.monitoring_active = is_monitoring)

\* C21: the health_status that get_status reports is 'stopped' when not
\* monitoring; else 'degraded' when last_error is set; else 'unhealthy' when
\* error_count > 3 or the observer is missing or not alive; else 'healthy'
\* (with the fields as they are in the report).
C21_HealthStatusPriority ==
    \A t \in Threads :
      mret[t].op = "get_status"
        => mret[t].health =
             CASE ~is_monitoring -> "stopped"
               [] is_monitoring /\ last_error # None -> "degraded"
               [] is_monitoring /\ last_error = None
                    /\ (error_count > 3 \/ observer = 0 \/ ~ObserverIsAlive)
                    -> "unhealthy"
               [] OTHER -> "healthy"

\* the report is 'degraded' although the error count is above 3 and the
\* observer is dead: the error comes first
C21_Witness ==
    /\ mret[Requester].op = "get_status"
    /\ mret[Requester].health = "degraded"
    /\ is_monitoring
    /\ error_count > 3
    /\ observer # 0
    /\ ~ObserverIsAlive

\* the handler is in no callback and the logger in no call
HandlerIdle == pc[Notifier] = "idle" /\ pending.seq # calls

\* C22: whatever psutil does, every event is recorded: between calls, all
\* the log_attack_event calls and all the notifications for files of the
\* watch set are in the store; a notification during which psutil failed
\* is there with process_name "Unknown", and so is every event logged with
\* no process_info while psutil failed.
C22_IntrospectionNeverBlocks ==
    HandlerIdle
      => /\ Len(Persisted) = calls
         /\ event_count = calls - Cardinality({i \in 1..Len(Persisted) :
                                                 Persisted[i].filename = "b.txt"})
         /\ \A i \in 1..Len(Persisted) :
              Persisted[i].filename = "b.txt"
                => Persisted[i].process_name = "Unknown"
         /\ pending.outcome \notin {"ok", "none"}
              => /\ pending.seq >= 0
                 /\ Persisted[pending.seq + 1].process_name = "Unknown"
                 /\ Persisted[pending.seq + 1].event_type
                      = EventTypeOf(pending.note.kind)

\* the stored events that the handler passed on (files of the watch set,
\* under the name the notification carried)
Forwarded == {i \in 1..Len(Persisted) : IsHoneyToken(Persisted[i].filename)}

\* C23: between callbacks, the handler has passed on one event for each
\* accessed / modified / deleted notification that was for a file (not a
\* directory) of the watch set and none for the others, so that k such
\* notifications are k stored events; the last one stored is of the kind
\* and the file of the last such notification.
C23_OneEventPerMatchingNotification ==
    HandlerIdle
      => /\ event_count = notified
         /\ Cardinality(Forwarded) = notified
         /\ (pending.outcome # "none" /\ Forwarded # {})
              => LET e == Persisted[CHOOSE i \in Forwarded :
                                      \A j \in Forwarded : j <= i]
                 IN /\ e.event_type = EventTypeOf(pending.note.kind)
                    /\ e.filename = pending.note.src_path

\* C24: a restart_monitoring call of the single caller that passed the
\* budget check assigns start_time from the clock when its start succeeds,
\* and then returns True with is_monitoring set, an observer that was found
\* alive, monitoring_active stored as True and restart_count one higher;
\* when its start fails it returns False with is_monitoring False,
\* monitoring_active stored as False and restart_count as it was.
C24_RestartWithinBudget ==
    [][/\ (mpc[MainThread] = "start_mark" /\ mloc[MainThread].restart
             /\ mpc'[MainThread] # "start_mark")
          => start_time' = now
       /\ (mpc[MainThread] = "restart_done" /\ mpc'[MainThread] # "restart_done")
          => /\ mret'[MainThread].op = "restart"
             /\ mret'[MainThread].result = mret[MainThread].result
             /\ IF mret[MainThread].result
                THEN /\ ~mret[MainThread].noop
                     /\ mret[MainThread].alive
                     /\ is_monitoring'
                     /\ observer' # 0
                     /\ LoadSystemStatus'.monitoring_active
                     /\ start_time' <= now
                     /\ restart_count' = restart_count + 1
                ELSE /\ ~is_monitoring'
                     /\ ~LoadSystemStatus'.monitoring_active
                     /\ restart_count' = restart_count]_vars

\* a restart of a running service has returned True some time after the
\* first start: the second observer watches, start_time is the later time
C24_Witness ==
    /\ mpc[MainThread] = "idle"
    /\ MLast.op = "restart"
    /\ MLast.result
    /\ restart_count = 1
    /\ is_monitoring
    /\ Len(observers) = 2
    /\ observer = 2
    /\ observers = <<"dead", "alive">>
    /\ start_time > 0

\* C25: every restart_monitoring attempt that passed the budget check is
\* counted, whether its start succeeded or failed: when the call returns,
\* restart_count is one higher (so that no more than max_restarts attempts
\* are made before the count is reset).
C25_EveryAttemptCounts ==
    [][\A t \in MonitorThreads :
         (mpc[t] = "restart_done" /\ mpc'[t] # "restart_done")
           => restart_count' = restart_count + 1]_vars

\* C26: restart_delay is always between 1 and 60 and equals
\* min(2^restart_count, 60), and a restart_monitoring call that returns
\* False changes neither restart_delay nor restart_count.
C26_DelayDoublesUpToCap ==
    /\ [](/\ 1 <= restart_delay
          /\ restart_delay <= 60
          /\ restart_delay = (IF 2^restart_count < 60 THEN 2^restart_count ELSE 60))
    /\ [][\A t \in MonitorThreads :
            (mpc[t] \in {"restart_check", "restart_done"}
               /\ mpc'[t] \notin {"restart_check", "restart_done"}
               /\ mret'[t].op = "restart" /\ ~mret'[t].result)
              => UNCHANGED <<restart_delay, restart_count>>]_vars

\* the fifth successful restart has returned, after one whose observer did
\* not start: the delay has doubled five times
C26_Witness ==
    /\ mpc[MainThread] = "idle"
    /\ MLast.op = "restart"
    /\ MLast.result
    /\ restart_count = 5
    /\ restart_delay = 32
    /\ Len(observers) > restart_count

\* C27: when the auto-restart thread comes out of its sleep and finds the
\* service running, restarted before, with more than 300 s since
\* start_time, it sets restart_count to 0 and restart_delay to 1; no step
\* lowers restart_count or restart_delay while the service is not running
\* or 300 s or less have passed since start_time.
C27_ResetAfterStablePeriod ==
    [][/\ (mpc[Worker] = "w_reset" /\ mpc'[Worker] # "w_reset"
             /\ IsRunning /\ restart_count > 0
             /\ now - start_time > 300 * TicksPerSec)
          => (restart_count' = 0 /\ restart_delay' = 1)
       /\ (restart_count' < restart_count \/ restart_delay' < restart_delay)
          => /\ IsRunning
             /\ now - start_time > 300 * TicksPerSec
             /\ restart_count' = 0
             /\ restart_delay' = 1]_vars

\* the thread has reset the count: it had restarted the service (the second
\* observer watches), which then ran for more than 300 s
C27_Witness ==
    /\ mret[Worker].op = "restart"
    /\ mret[Worker].result
    /\ mpc[Worker] = "w_loop"
    /\ restart_count = 0
    /\ restart_delay = 1
    /\ IsRunning
    /\ now - start_time > 300 * TicksPerSec

\* C28: when start_monitoring has returned False after its checks of the
\* tokens, the paths and the watch directory had passed (the handler or
\* the observer had been created), the service holds no observer and no
\* handler, and none of its observers watches.
C28_FailedStartRollsBack ==
    (/\ mpc[MainThread] = "idle"
     /\ MLast.op = "start"
     /\ ~MLast.result
     /\ ~MLast.noop
     /\ PreflightError(MLast.env) = None)
    => (/\ observer = 0
        /\ handler = 0
        /\ Watching = {})

\* C29: a log_attack_event call that finds the event file malformed goes on
\* to write with an empty list of existing events; and once a
\* log_attack_event call has ended, it has returned its event, the file is
\* a valid list that ends with that event (that holds only that event when
\* the file was malformed) and the status is UNDER_ATTACK.
C29_MalformedLogIsOverwritten ==
    /\ [][\A t \in Threads :
            (pc[t] = "log_load" /\ attacksFile.st = "bad"
               /\ pc'[t] # "log_load")
              => (pc'[t] = "log_open" /\ loc'[t].attacks = <<>>)]_vars
    /\ []((Idle /\ Last.op = "log")
            => (/\ Last.ok
                /\ attacksFile.st = "ok"
                /\ Persisted # <<>>
                /\ Persisted[Len(Persisted)] = Last.ev
                /\ statusFile.st = "ok"
                /\ Status.status = "UNDER_ATTACK"))

C31_ResetAllOrNothing ==
    /\ []((Idle /\ Last.op = "reset" /\ Last.result)
            => (/\ Persisted = <<>>
                /\ statusFile.st = "ok"
                /\ Status.status = "SAFE"
                /\ Status.total_attacks = 0
                /\ Status.last_attack = NoTime
                /\ attack_counter = 1))
    /\ [][\A t \in Threads :
            (ret'[t] # ret[t] /\ ret'[t].op = "reset" /\ ~ret'[t].result)
              => (/\ pc[t] = "idle"
                  /\ UNCHANGED <<attacksFile, statusFile, attack_counter>>)]_vars

\* C32: a health check that fails on the running service leaves a
\* last_error with which the reported health is 'degraded'; and a status
\* asked for while monitoring is active and the health checks of more than
\* 3 intervals in a row have failed reports 'unhealthy'.
C32_RepeatedFailuresAreUnhealthy ==
    /\ [][(mpc[Worker] = "w_health" /\ mpc'[Worker] # "w_health" /\ IsRunning)
            => (last_error' # None /\ GetHealthStatus(last_error') = "degraded")]_vars
    /\ [][(mret'[Requester] # mret[Requester]
             /\ is_monitoring
             /\ IsRunning
             /\ now - start_time > ErrorThreshold * health_check_interval * TicksPerSec)
            => mret'[Requester].health = "unhealthy"]_vars

\* C33: when the auto-restart thread finds the service not running and
\* restart_count at max_restarts, its loop exits without another restart,
\* and it leaves in last_error an error of its own (not None, and not what
\* a health check had left there) for get_status to report.
C33_WorkerSurfacesExhaustedBudget ==
    [][(mpc[Worker] = "w_check" /\ mpc'[Worker] # "w_check"
          /\ ~IsRunning /\ ~shutdown_requested
          /\ restart_count >= max_restarts)
         => (/\ mpc'[Worker] = "w_exited"
             /\ UNCHANGED <<restart_count, observers>>
             /\ last_error' \notin HealthFindings)]_vars

\* the handler has finished the callback of a move notification for a file
CallbackDone ==
    /\ pc[Notifier] = "idle"
    /\ pending.seq # calls
    /\ pending.rest = <<>>
    /\ pending.note.kind = "moved"
    /\ ~pending.note.is_directory

\* C34: for a move notification for a file, with both paths the handler
\* has emitted file_moved_from on the source iff the source is in the watch
\* set and file_moved_to on the destination iff the destination is, the
\* source first; with the source path only it has emitted file_moved on
\* the source iff it is in the watch set; and nothing else.
C34_MoveEmitsPerMember ==
    CallbackDone
      => LET n == pending.note
             from == <<"file_moved_from", n.src_path>>
             to == <<"file_moved_to", n.dest_path>>
             moved == <<"file_moved", n.src_path>>
             src == Resolve(n.src_path) \in WatchSet
             dst == Resolve(n.dest_path) \in WatchSet
         IN  /\ n.has_dest /\ src /\ dst => pending.emitted = <<from, to>>
             /\ n.has_dest /\ src /\ ~dst => pending.emitted = <<from>>
             /\ n.has_dest /\ ~src /\ dst => pending.emitted = <<to>>
             /\ n.has_dest /\ ~src /\ ~dst => pending.emitted = <<>>
             /\ ~n.has_dest /\ src => pending.emitted = <<moved>>
             /\ ~n.has_dest /\ ~src => pending.emitted = <<>>

\* a is a prefix of b
IsPrefix(a, b) == Len(a) <= Len(b) /\ \A i \in 1..Len(a) : a[i] = b[i]

ListBefore == IF InLog(Notifier) THEN loc[Notifier].had ELSE Persisted

\* the event list persisted after it
ListAfter ==
    IF InLog(Notifier) THEN Append(loc[Notifier].had, loc[Notifier].ev)
    ELSE Persisted

\* C36: a get_all_attacks or get_recent_attacks that runs while a
\* log_attack_event is in progress returns what it would return over the
\* event list from before the write or over the one from after it, never an
\* empty or shortened one.
C36_ReadsSeeSnapshot ==
    [][\A t \in Threads :
         ListReadReturns(t)
           => /\ ret'[t].op = "get_all"
                   => ret'[t].list \in {ListBefore, ListAfter}
              /\ ret'[t].op = "get_recent"
                   => ret'[t].list \in
                        {RecentAttacks(OkFile(ListBefore, 0), ret'[t].arg),
                         RecentAttacks(OkFile(ListAfter, 0), ret'[t].arg)}]_vars

\* C37: when start_monitoring returns True the service is running
\* (is_running() holds, unless the observer died after the call had found
\* it alive); a call that finds is_monitoring set while the observer is dead
\* does not return at its first check but goes on to create a new watch.
C37_TrueStartHoldsLiveWatch ==
    [][\A t \in MonitorThreads :
         /\ (mpc[t] \in StartPcs /\ mpc'[t] \notin StartPcs /\ mret'[t].result)
              => \/ IsRunning'
                 \/ (/\ ~mret'[t].noop
                     /\ mret'[t].alive
                     /\ observer' # 0
                     /\ observers'[observer'] = "dead")
         /\ (mpc[t] = "start_check" /\ mpc'[t] # "start_check"
               /\ is_monitoring /\ ~IsRunning)
              => mpc'[t] = "start_preflight"]_vars

\* C38: the auto-restart thread tolerates at most 10 errors of its loop
\* body: while it is in its loop error_count, which every such error
\* raises by one, is at most 10 and is never lowered, also not by a restart
\* that succeeds between two errors; so an eleventh error ends the loop.
C38_WorkerErrorsAreBounded ==
    /\ [](WorkerAlive => error_count <= 10)
    /\ [][(WorkerAlive /\ WorkerAlive') => error_count' >= error_count]_vars

\* C39: a log_attack_event call that raises has changed nothing: it raises
\* before the status update and the counter increment, and when it raises
\* the persisted event list is the one from the start of the call,
\* total_attacks is as at the start of the call and the status file and
\* attack_counter are untouched.
C39_FailedLogChangesNothing ==
    [][\A t \in Threads :
         (InLog(t) /\ pc'[t] = "idle" /\ ~ret'[t].ok)
           => (/\ pc[t] \in {"log_load", "log_open", "log_dump"}
               /\ Persisted' = loc[t].had
               /\ LoadSystemStatus'.total_attacks = loc[t].before
               /\ UNCHANGED <<statusFile, attack_counter>>)]_vars

\* the auto-restart thread is inside the stop_monitoring of its own restart,
\* after the flag was raised
WorkerInOwnStop ==
    mpc[Worker] \in {"stop_join", "stop_observer", "stop_audit", "stop_clean"}

\* C40: with the auto-restart thread as the only caller of the service, the
\* shutdown flag is raised only while the thread is inside the
\* stop_monitoring of its own restart: it is lowered when restart_monitoring
\* returns and whenever the thread evaluates its loop condition, so the
\* thread never leaves through the loop condition; it ends only at the
\* budget check.
C40_OwnRestartKeepsWorker ==
    /\ []((WorkerAlive /\ ~WorkerInOwnStop) => ~shutdown_requested)
    /\ [][(mpc[Worker] = "w_loop" /\ mpc'[Worker] # "w_loop")
            => mpc'[Worker] = "w_check"]_vars
    /\ [][(WorkerAlive /\ mpc'[Worker] = "w_exited")
            => (mpc[Worker] = "w_check" /\ restart_count >= max_restarts)]_vars

\* the thread is back at the check of its loop after its second successful
\* restart: the restart after the first one stopped a monitoring service,
\* which raised and lowered the flag
C40_Witness ==
    /\ mpc[Worker] = "w_check"
    /\ mret[Worker].op = "restart"
    /\ restart_count >= 2
    /\ is_monitoring
    /\ ~shutdown_requested

====
